---- MODULE Spec2Model ----
(***************************************************************************)
(* Send / verify / reconcile engine of danmaku-sender.                     *)
(*                                                                         *)
(*   core/history_manager.py   the Lifecycle Store (table sent_danmaku)    *)
(*   core/models/errors.py     the error enumeration BiliDmErrorCode       *)
(*   core/error_handler.py     normalize_exception                         *)
(*   api/bili_api_client.py    _network_guards                             *)
(*   core/bili_sender.py       the send run send_danmaku_from_list         *)
(*   core/delay_manager.py     the pacing wait                             *)
(***************************************************************************)
EXTENDS Integers, Sequences, FiniteSets, TLC

(***************************************************************************)
(* Bounds of the model.                                                    *)
(***************************************************************************)
\* ctime values (time.time()) a row can be stamped with: 0..MaxTime
MaxTime == 1
\* longest batch handed to one send run
MaxItems == 3

(***************************************************************************)
(* Input universes.                                                        *)
(***************************************************************************)
\* provider-assigned ids (dmid_str); "" is "no id"
DmIds == {"d1", "d2"}

\* VideoTarget (bvid, cid); title plays no role in the store
Targets == {[bvid |-> "BV1", cid |-> 1], [bvid |-> "BV2", cid |-> 2]}

Cids == {t.cid : t \in Targets}

\* the sendable part of a Danmaku: the two differ in mode only
Payloads ==
    {[msg |-> "a", progress |-> 1000, mode |-> 1, fontsize |-> 25, color |-> 16777215],
     [msg |-> "a", progress |-> 1000, mode |-> 4, fontsize |-> 25, color |-> 16777215]}

Times == 0..MaxTime

(***************************************************************************)
(* DanmakuStatus                                                           *)
(***************************************************************************)
PENDING == 0
VERIFIED == 1
LOST == 2

Statuses == {PENDING, VERIFIED, LOST}

VARIABLES
    db,              \* the rows of table sent_danmaku
    call,            \* the last store operation called and its arguments
    exc,             \* classifier input: the exception handed to normalize_exception
    found,           \* classifier output: the BiliDmErrorCode member it returned
    target,          \* send run: the VideoTarget
    danmakus,        \* send run: the batch (dmid is filled in on success)
    config,          \* send run: the SenderConfig
    stop_event,      \* the shared threading.Event
    pc,              \* send run: where send_danmaku_from_list stands
    i,               \* send run: 1-based index of the item of the current iteration
    ctx,             \* send run: the SendingContext
    unsent_danmakus, \* BiliDanmakuSender.unsent_danmakus
    summary,         \* the reason _log_send_summary reported ("" before it ran)
    elapsed,         \* minutes on the clock since the run started
    delay_count,     \* DelayManager._current_count
    run,             \* send run history: what was submitted, skipped, answered
    pace,            \* the blocking wait in progress: its delay and the time waited
    mon,             \* the reconciliation thread, and the store operations in commit order
    hm,              \* class HistoryManager (_instance, _initialized, _lock) and its callers
    session,         \* the ValidatorSession and the model fields it reads and writes
    power            \* class PowerManagement, the execution state, and its callers

storeVars == <<db, call>>

classVars == <<exc, found>>

sendVars ==
    <<target, danmakus, config, stop_event, pc, i, ctx, unsent_danmakus, summary,
      elapsed, delay_count, run>>

auxVars == <<pace, mon, hm, session, power>>

vars ==
    <<db, call, exc, found, target, danmakus, config, stop_event, pc, i, ctx,
      unsent_danmakus, summary, elapsed, delay_count, run, pace, mon, hm, session, power>>

(***************************************************************************)
(* Danmaku: payload plus the mutable dmid.                                 *)
(***************************************************************************)
Danmaku(p, dmid) ==
    [msg |-> p.msg, progress |-> p.progress, mode |-> p.mode,
     fontsize |-> p.fontsize, color |-> p.color, dmid |-> dmid]

(***************************************************************************)
(* The Lifecycle Store.  A table is the set of its rows.                   *)
(***************************************************************************)
Row(tgt, dm, is_visible_api, now, status) ==
    [dmid |-> dm.dmid, cid |-> tgt.cid, bvid |-> tgt.bvid,
     msg |-> dm.msg, progress |-> dm.progress, mode |-> dm.mode,
     fontsize |-> dm.fontsize, color |-> dm.color, ctime |-> now,
     is_visible |-> IF is_visible_api THEN 1 ELSE 0, status |-> status]

WithStatus(r, s) == [r EXCEPT !.status = s]

\* INSERT OR REPLACE: what the insert would do without the IGNORE conflict clause
InsertOrReplace(tbl, row) == {r \in tbl : r.dmid # row.dmid} \cup {row}

\* INSERT OR IGNORE on PRIMARY KEY dmid
InsertOrIgnore(tbl, row) ==
    IF \E r \in tbl : r.dmid = row.dmid THEN tbl ELSE tbl \cup {row}

\* what a statement of an operation can do: run, or have sqlite3 raise (the
\* file locked by another connection, not openable); the operation's except
\* branch logs the error, and nothing of the transaction is written
SqlOutcomes == {"ok", "storage_error"}

\* record_danmaku: a danmaku without dmid returns at line 98, before the
\* try; an INSERT in which sqlite3 raises is logged (lines 122-123) and
\* leaves the table as it was
record_danmaku(tbl, tgt, dm, is_visible_api, now, io) ==
    IF dm.dmid = "" \/ io # "ok"
    THEN tbl
    ELSE InsertOrIgnore(tbl, Row(tgt, dm, is_visible_api, now, PENDING))

\* WHERE dmid IN (...) with the status test dropped
VerifyWhereAnyStatus(r, verified_dmids) == r.dmid \in verified_dmids

\* WHERE dmid IN (...) AND status = PENDING
VerifyWhere(r, verified_dmids) ==
    r.dmid \in verified_dmids /\ r.status = PENDING

\* verify_dmids: the table it leaves; an empty list returns before the try,
\* an exception inside it is logged
verify_dmids(tbl, verified_dmids, io) ==
    IF verified_dmids = {} \/ io # "ok"
    THEN tbl
    ELSE {IF VerifyWhere(r, verified_dmids) THEN WithStatus(r, VERIFIED) ELSE r : r \in tbl}

\* the length of the list for cursor.rowcount
verify_rowcount_of_list(tbl, verified_dmids, io) ==
    IF io # "ok" THEN 0 ELSE Cardinality(verified_dmids)

\* verify_dmids: the value it returns, cursor.rowcount, or 0 from the empty
\* list and from the except branch
verify_rowcount(tbl, verified_dmids, io) ==
    IF verified_dmids = {} \/ io # "ok"
    THEN 0
    ELSE Cardinality({r \in tbl : VerifyWhere(r, verified_dmids)})

\* WHERE cid = ? AND status = PENDING AND dmid IN (...): the NOT lost
LostWhereIn(r, cid, verified_dmids) ==
    r.cid = cid /\ r.status = PENDING /\ r.dmid \in verified_dmids

\* WHERE status = PENDING [AND dmid NOT IN (...)]: the cid test dropped
LostWhereAnyCid(r, cid, verified_dmids) ==
    /\ r.status = PENDING
    /\ (verified_dmids # {} => r.dmid \notin verified_dmids)

\* WHERE cid = ? AND status = PENDING [AND dmid NOT IN (...)]
LostWhere(r, cid, verified_dmids) ==
    /\ r.cid = cid
    /\ r.status = PENDING
    /\ (verified_dmids # {} => r.dmid \notin verified_dmids)

\* DELETE for UPDATE: the rows are removed where they should be marked
mark_as_lost_deleting(tbl, cid, verified_dmids, io) ==
    IF io # "ok"
    THEN tbl
    ELSE {r \in tbl : ~LostWhere(r, cid, verified_dmids)}

\* mark_as_lost: the table it leaves; an exception inside the try is logged
mark_as_lost(tbl, cid, verified_dmids, io) ==
    IF io # "ok"
    THEN tbl
    ELSE {IF LostWhere(r, cid, verified_dmids) THEN WithStatus(r, LOST) ELSE r : r \in tbl}

\* COUNT(*) taken over the whole table, the sums under cid
get_stats_total_of_table(tbl, cid, io) ==
    IF io # "ok"
    THEN <<0, 0, 0>>
    ELSE <<Cardinality(tbl),
           Cardinality({r \in tbl : r.cid = cid /\ r.status = VERIFIED}),
           Cardinality({r \in tbl : r.cid = cid /\ r.status = LOST})>>

\* get_stats: (COUNT(*), verified, lost) of the rows under cid; (0, 0, 0)
\* after the except branch logged an exception
get_stats(tbl, cid, io) ==
    IF io # "ok"
    THEN <<0, 0, 0>>
    ELSE <<Cardinality({r \in tbl : r.cid = cid}),
           Cardinality({r \in tbl : r.cid = cid /\ r.status = VERIFIED}),
           Cardinality({r \in tbl : r.cid = cid /\ r.status = LOST})>>

\* rows of the table with primary key dmid
RowsOf(tbl, dmid) == {r \in tbl : r.dmid = dmid}

(***************************************************************************)
(* BiliDmErrorCode: the members by code, and the fatal ones.               *)
(***************************************************************************)
SUCCESS == 0
FREQ_LIMIT == 36703
NETWORK_ERROR == -9999
UNKNOWN_ERROR == -9998
TIMEOUT_ERROR == -9997
CONNECTION_ERROR == -9996
GENERIC_FAILURE == -1

EnumCodes ==
    {0, -101, -102, -111, -400, -404} \cup (36700..36715) \cup {36718}
      \cup {-9999, -9998, -9997, -9996, -1}

FatalCodes ==
    {-101, -102, -111, -404, 36700, 36704, 36705, 36711, 36713,
     -9999, -9998, -9997, -9996}

\* An optional value (a member or None, a key that may be missing) is the set
\* of its values: None (empty) or Some(x).
None == {}

Some(x) == {x}

The(o) == CHOOSE x \in o : TRUE

\* from_code: the member with that code (members are named by their codes), or None
from_code(code) == IF code \in EnumCodes THEN Some(code) ELSE None

is_fatal_error(member) == member \in FatalCodes

\* the member names _network_guards reads on BiliDmErrorCode
GuardMember ==
    [Timeout |-> "TIMEOUT_ERROR", ConnectionError |-> "CONNECTION_ERROR",
     HTTPError |-> "HTTP_ERROR", ValueError |-> "PARSE_ERROR",
     RequestException |-> "NETWORK_ERROR"]

\* the members of those names that the enumeration defines
MemberCode ==
    [TIMEOUT_ERROR |-> TIMEOUT_ERROR, CONNECTION_ERROR |-> CONNECTION_ERROR,
     NETWORK_ERROR |-> NETWORK_ERROR]

RequestsErrors == DOMAIN GuardMember

BiliApiException(code, is_network_error) ==
    [type |-> "BiliApiException", code |-> Some(code),
     is_network_error |-> is_network_error]

\* an exception that is no BiliApiException; code is its "code" attribute, if any
OtherException(type, code) ==
    [type |-> type, code |-> code, is_network_error |-> FALSE]

(***************************************************************************)
(* _network_guards: the exception that leaves the guard for each exception *)
(* of requests raised inside it.  Reading a member name the enumeration    *)
(* does not define raises AttributeError in the handler.                   *)
(***************************************************************************)
_network_guards(kind) ==
    IF GuardMember[kind] \in DOMAIN MemberCode
    THEN BiliApiException(MemberCode[GuardMember[kind]], kind # "ValueError")
    ELSE OtherException("AttributeError", None)

(***************************************************************************)
(* normalize_exception                                                     *)
(***************************************************************************)
normalize_exception(e) ==
    IF e.type = "BiliApiException"
    THEN IF from_code(The(e.code)) # None THEN The(from_code(The(e.code)))
         ELSE IF e.is_network_error THEN NETWORK_ERROR
         ELSE GENERIC_FAILURE
    ELSE IF e.code # None /\ from_code(The(e.code)) # None
         THEN The(from_code(The(e.code)))
         ELSE UNKNOWN_ERROR

(***************************************************************************)
(* DanmakuSendResult.from_api_response; a response is the JSON the         *)
(* provider answered: code (None when the key is missing), data.dmid_str,  *)
(* data.visible.                                                           *)
(***************************************************************************)
Response(code, dmid, visible) == [code |-> code, dmid |-> dmid, visible |-> visible]

from_api_response(resp) ==
    LET code == IF resp.code = None THEN GENERIC_FAILURE ELSE The(resp.code)
    IN  [code |-> code, is_success |-> (code = SUCCESS),
         dmid |-> resp.dmid, is_visible |-> resp.visible]

\* _process_send_result: <<is_success, is_fatal_error>>
_process_send_result(result) ==
    IF ~result.is_success
    THEN LET error_enum == IF from_code(result.code) = None
                           THEN UNKNOWN_ERROR ELSE The(from_code(result.code))
         IN  IF is_fatal_error(error_enum) THEN <<FALSE, TRUE>> ELSE <<FALSE, FALSE>>
    ELSE <<TRUE, FALSE>>

(***************************************************************************)
(* Fresh values of the run's state, and the values the variables of the    *)
(* classifier and of the send run keep while only the store is exercised.  *)
(***************************************************************************)
NewContext ==
    [attempted_count |-> 0, success_count |-> 0, skipped_count |-> 0,
     auto_stop_reason |-> "", fatal_error_occurred |-> FALSE,
     unsent_records |-> <<>>, local_counter |-> <<>>, db_count_cache |-> <<>>]

\* hasattr(o, name)
hasattr(o, name) == name \in DOMAIN o

\* SenderConfig() of core/state.py lines 15-32, the fields the run reads: the
\* class declares no skip_sent
SenderConfig == [stop_after_count |-> 0, stop_after_time |-> 0]

\* SenderConfig.from_dict (state.py lines 45-50): a key of data is set only
\* when the object has an attribute of that name, any other key is dropped
from_dict(self, data) ==
    [key \in DOMAIN self |-> IF key \in DOMAIN data THEN data[key] ELSE self[key]]

\* settings is the saved "sender" dict the config was built from, progress
\* the last progress_callback(done, total), skip_check what the skip check
\* of the item at hand raised
NoRun ==
    [db0 |-> {}, submitted |-> <<>>, skipped |-> {}, exit |-> "", events |-> <<>>,
     faults |-> {}, lookup_faults |-> {},
     settings |-> SenderConfig, progress |-> None, skip_check |-> "",
     last |-> [idx |-> 0, kind |-> "", err |-> "", code |-> None, dmid |-> "",
               outcome |-> ""]]

\* no wait in progress: no delay drawn, nothing waited, nothing returned
NoPace ==
    [kind |-> "", calls |-> 0, delay |-> None, waited |-> 0, is_long_rest |-> FALSE,
     signalled |-> FALSE, returned |-> None]

\* the reconciliation thread before its first operation; no operation committed
NoMon ==
    [done |-> 0, stats |-> None, log |-> <<>>,
     at |-> "", tick |-> "", ticks |-> 0, report |-> None,
     source_danmaku_filepath |-> "", loaded_danmakus |-> <<>>,
     matched_local_indices |-> {}, unique_matched_online_ids |-> {},
     matches |-> <<>>, waited |-> 0, exception |-> ""]

\* class HistoryManager as imported: no instance, not initialized, lock free
NoHm ==
    [_instance |-> None, _initialized |-> FALSE, _lock |-> None, db_path |-> {},
     objects |-> 0, init_db_runs |-> 0, init_db_done |-> 0, th |-> <<>>]

ClassIdle == exc = OtherException("none", None) /\ found = SUCCESS

\* no validator session: nothing loaded, no snapshot, no issue, nothing to undo
NoSession ==
    [loaded_danmakus |-> <<>>, original_snapshot |-> <<>>, current_issues |-> <<>>,
     undo_stack |-> <<>>, validator_is_dirty |-> FALSE,
     loaded_issues |-> <<>>, history |-> <<>>, op |-> "", ret |-> FALSE, ops |-> 0,
     set_dirty_called |-> FALSE]

\* class PowerManagement as imported: count 0, lock free, default sleep policy
NoPower ==
    [IS_WINDOWS |-> TRUE, _prevent_sleep_count |-> 0, _sleep_lock |-> {},
     state |-> "default", api |-> <<>>, th |-> <<>>]

AuxIdle ==
    pace = NoPace /\ mon = NoMon /\ hm = NoHm /\ session = NoSession /\ power = NoPower

SendIdle ==
    /\ target = CHOOSE t \in Targets : t.cid = 1
    /\ danmakus = <<>>
    /\ config = SenderConfig
    /\ stop_event = FALSE
    /\ pc = "idle"
    /\ i = 1
    /\ ctx = NewContext
    /\ unsent_danmakus = <<>>
    /\ summary = ""
    /\ elapsed = 0
    /\ delay_count = 0
    /\ run = NoRun

(***************************************************************************)
(* Store operations as actions: any caller, any arguments.  call records   *)
(* the operation last called; pend is the set of ids that were PENDING     *)
(* when verify_dmids was called, kept by a mark_as_lost that directly      *)
(* follows it with the same id list (follows).  io is what sqlite3 did in  *)
(* the call, vio what it did in the verify_dmids a mark_as_lost follows.   *)
(***************************************************************************)
PendingIds(tbl) == {r.dmid : r \in {x \in tbl : x.status = PENDING}}

NoCall ==
    [op |-> "none", dmid |-> "", cid |-> 0, ids |-> {}, pend |-> {}, follows |-> FALSE,
     ret |-> 0, io |-> "ok", vio |-> "ok"]

\* a danmaku without dmid returns at line 98, before any statement runs
RecordDanmaku(tgt, dm, is_visible_api, now, io) ==
    /\ dm.dmid = "" => io = "ok"
    /\ db' = record_danmaku(db, tgt, dm, is_visible_api, now, io)
    /\ call' = [NoCall EXCEPT !.op = "record_danmaku", !.dmid = dm.dmid, !.io = io]
    /\ UNCHANGED <<classVars, sendVars, auxVars>>

\* an empty list returns at line 131, before any statement runs
VerifyDmids(verified_dmids, io) ==
    /\ verified_dmids = {} => io = "ok"
    /\ db' = verify_dmids(db, verified_dmids, io)
    /\ call' = [NoCall EXCEPT !.op = "verify_dmids", !.ids = verified_dmids,
                              !.pend = PendingIds(db),
                              !.ret = verify_rowcount(db, verified_dmids, io),
                              !.io = io]
    /\ UNCHANGED <<classVars, sendVars, auxVars>>

MarkAsLost(cid, verified_dmids, io) ==
    /\ db' = mark_as_lost(db, cid, verified_dmids, io)
    /\ call' = IF call.op = "verify_dmids" /\ call.ids = verified_dmids
               THEN [NoCall EXCEPT !.op = "mark_as_lost", !.cid = cid,
                                   !.ids = verified_dmids, !.pend = call.pend,
                                   !.follows = TRUE, !.io = io, !.vio = call.io]
               ELSE [NoCall EXCEPT !.op = "mark_as_lost", !.cid = cid,
                                   !.ids = verified_dmids, !.io = io]
    /\ UNCHANGED <<classVars, sendVars, auxVars>>

StoreInit ==
    /\ db = {}
    /\ call = NoCall
    /\ ClassIdle
    /\ SendIdle
    /\ AuxIdle

StoreNext ==
    \/ \E t \in Targets, p \in Payloads, d \in DmIds \cup {""}, v \in BOOLEAN, now \in Times,
          io \in SqlOutcomes :
          RecordDanmaku(t, Danmaku(p, d), v, now, io)
    \/ \E ids \in SUBSET DmIds, io \in SqlOutcomes : VerifyDmids(ids, io)
    \/ \E c \in Cids, ids \in SUBSET DmIds, io \in SqlOutcomes : MarkAsLost(c, ids, io)

SpecStore == StoreInit /\ [][StoreNext]_vars

(***************************************************************************)
(* C1  Monotonic status: a row whose status is VERIFIED or LOST keeps it   *)
(* through every store call, and the only status changes any call makes    *)
(* are PENDING -> VERIFIED and PENDING -> LOST.                            *)
(***************************************************************************)
StatusStepOk(r, r2) ==
    \/ r2.status = r.status
    \/ r.status = PENDING /\ r2.status \in {VERIFIED, LOST}

C1_MonotonicStatus ==
    [][\A r \in db : /\ RowsOf(db', r.dmid) # {}
                      /\ \A r2 \in RowsOf(db', r.dmid) : StatusStepOk(r, r2)]_vars

C1_Witness ==
    /\ call.op \in {"verify_dmids", "mark_as_lost"}
    /\ \E r \in db : r.status = VERIFIED /\ r.dmid \in call.ids
    /\ \E r \in db : r.status = LOST /\ r.cid = call.cid /\ r.dmid \notin call.ids

(***************************************************************************)
(* C2  Idempotent accept: every id has at most one row, and a              *)
(* record_danmaku call for an id that already has a row leaves the whole   *)
(* table as it was (no second row, no field and no status changed).        *)
(***************************************************************************)
C2_OneRowPerId == \A d \in DmIds : Cardinality(RowsOf(db, d)) <= 1

C2_IdempotentAccept ==
    [][/\ C2_OneRowPerId'
       /\ (call'.op = "record_danmaku" /\ RowsOf(db, call'.dmid) # {}) => db' = db
       /\ (call'.op = "record_danmaku" /\ call'.dmid # "")
              => Cardinality(RowsOf(db', call'.dmid)) = 1]_vars

\* C2 with the writes that fail: every id has at most one row; a
\* record_danmaku call for an id that already has a row leaves the whole
\* table as it was; a call in which sqlite3 does not raise leaves exactly
\* one row for its id; a call in which it raises leaves the table as it was.
C2_IdempotentAcceptOfCompletedCalls ==
    [][/\ C2_OneRowPerId'
       /\ (call'.op = "record_danmaku" /\ RowsOf(db, call'.dmid) # {}) => db' = db
       /\ (call'.op = "record_danmaku" /\ call'.dmid # "" /\ call'.io = "ok")
              => Cardinality(RowsOf(db', call'.dmid)) = 1
       /\ (call'.op = "record_danmaku" /\ call'.io # "ok") => db' = db]_vars

C2_Witness ==
    /\ call.op = "record_danmaku"
    /\ call.io = "ok"
    /\ \E r \in RowsOf(db, call.dmid) : r.status \in {VERIFIED, LOST}

(***************************************************************************)
(* C6  Reconciliation: after verify(L) the rows that were PENDING are      *)
(* VERIFIED when their id is in L and still PENDING otherwise; after a     *)
(* directly following markLost(X, L) the rows under X that were PENDING    *)
(* before the verify are LOST when their id is not in L and VERIFIED       *)
(* otherwise.                                                              *)
(***************************************************************************)
C6_Reconciliation ==
    /\ call.op = "verify_dmids" =>
          \A r \in db : r.dmid \in call.pend =>
              r.status = IF r.dmid \in call.ids THEN VERIFIED ELSE PENDING
    /\ (call.op = "mark_as_lost" /\ call.follows) =>
          \A r \in db : (r.dmid \in call.pend /\ r.cid = call.cid) =>
              r.status = IF r.dmid \in call.ids THEN VERIFIED ELSE LOST

\* C6 for calls in which sqlite3 does not raise; a call in which it raises
\* leaves every row as it was: after a failed verify(L) the rows that were
\* PENDING are PENDING, after a failed markLost(X, L) those the verify made
\* VERIFIED are VERIFIED and the others PENDING
C6_ReconciliationOfCompletedCalls ==
    /\ (call.op = "verify_dmids" /\ call.io = "ok") =>
          \A r \in db : r.dmid \in call.pend =>
              r.status = IF r.dmid \in call.ids THEN VERIFIED ELSE PENDING
    /\ (call.op = "verify_dmids" /\ call.io # "ok") =>
          \A r \in db : r.dmid \in call.pend => r.status = PENDING
    /\ (call.op = "mark_as_lost" /\ call.follows /\ call.vio = "ok" /\ call.io = "ok") =>
          \A r \in db : (r.dmid \in call.pend /\ r.cid = call.cid) =>
              r.status = IF r.dmid \in call.ids THEN VERIFIED ELSE LOST
    /\ (call.op = "mark_as_lost" /\ call.follows /\ call.vio = "ok" /\ call.io # "ok") =>
          \A r \in db : (r.dmid \in call.pend /\ r.cid = call.cid) =>
              r.status = IF r.dmid \in call.ids THEN VERIFIED ELSE PENDING

C6_Witness ==
    /\ call.op = "mark_as_lost" /\ call.follows
    /\ call.io = "ok" /\ call.vio = "ok"
    /\ \E r \in db : r.dmid \in call.pend /\ r.cid = call.cid
                     /\ r.dmid \in call.ids /\ r.status = VERIFIED
    /\ \E r \in db : r.dmid \in call.pend /\ r.cid = call.cid
                     /\ r.dmid \notin call.ids /\ r.status = LOST

(***************************************************************************)
(* The send run: BiliDanmakuSender.send_danmaku_from_list as called by     *)
(* SendTaskWorker.run (result callback _save_to_db_cb, the store as        *)
(* history_manager).                                                       *)
(***************************************************************************)
\* elapsed minutes the clock can reach
MaxMinutes == 1
\* largest stop_after_count tried
MaxStopCount == 2

\* the saved "sender" settings (config_manager.py line 45): the limits, with
\* or without a skip_sent key
SettingsData ==
    [stop_after_count : 0..MaxStopCount, stop_after_time : 0..1]
    \cup [stop_after_count : 0..MaxStopCount, stop_after_time : 0..1,
          skip_sent : BOOLEAN]

RECURSIVE SeqsUpTo(_, _)
SeqsUpTo(S, n) ==
    IF n = 0 THEN {<<>>}
    ELSE LET shorter == SeqsUpTo(S, n - 1)
         IN  shorter \cup {Append(q, x) : q \in {t \in shorter : Len(t) = n - 1}, x \in S}

Batches == SeqsUpTo({Danmaku(p, "") : p \in Payloads}, MaxItems)

\* what post_danmaku can do: answer a JSON, or have requests raise inside the guard
ResponseCodes ==
    {Some(SUCCESS), Some(-101), Some(FREQ_LIMIT), Some(36701), Some(12345), None}

\* the id the provider assigns to the k-th item of the batch when it accepts it
ItemIds == <<"n1", "n2", "n3", "n4", "n5">>

\* an id the store may hold already when the provider answers with it
RepeatedId == "p1"

\* an accepted item gets a fresh id (visible or shadow-hidden), an id that
\* was answered before, or none at all
ApiOutcomes(k) ==
    {[kind |-> "response", err |-> "", resp |-> Response(Some(SUCCESS), ItemIds[k], v)] :
        v \in BOOLEAN}
    \cup {[kind |-> "response", err |-> "",
           resp |-> Response(Some(SUCCESS), RepeatedId, TRUE)]}
    \cup {[kind |-> "response", err |-> "", resp |-> Response(c, "", TRUE)] :
        c \in ResponseCodes}
    \cup {[kind |-> "raise", err |-> e, resp |-> Response(None, "", TRUE)] :
        e \in RequestsErrors}

Total == Len(danmakus)

\* dict.get(key, default)
Get(d, key, default) == IF key \in DOMAIN d THEN d[key] ELSE default

\* d[key] = value
Put(d, key, value) == [k \in DOMAIN d \cup {key} |-> IF k = key THEN value ELSE d[k]]

_get_fingerprint(dm) == <<dm.msg, dm.progress, dm.mode, dm.fontsize, dm.color>>

count_records(tbl, tgt, dm) ==
    Cardinality({r \in tbl :
        /\ r.cid = tgt.cid /\ r.msg = dm.msg /\ r.mode = dm.mode /\ r.color = dm.color
        /\ r.fontsize = dm.fontsize /\ r.progress = dm.progress
        /\ r.status \in {PENDING, VERIFIED}})

\* ctx.add_unsent for the items at indices from..to, in list order
RECURSIVE add_unsent(_, _, _, _)
add_unsent(c, from, to, reason) ==
    IF from > to THEN c
    ELSE add_unsent([c EXCEPT !.unsent_records =
                         Append(@, [idx |-> from, reason |-> reason])],
                    from + 1, to, reason)

\* what a lookup in the store can do: answer, or fail with a storage error
LookupOutcomes == {"ok", "storage_error"}

\* count_records answering 1 when the lookup fails
count_records_io_one(tbl, tgt, dm, io) ==
    IF io = "ok" THEN count_records(tbl, tgt, dm) ELSE 1

\* count_records with its handler (history_manager.py lines 225-252): the
\* count, or 0 after any exception of the lookup
count_records_io(tbl, tgt, dm, io) ==
    IF io = "ok" THEN count_records(tbl, tgt, dm) ELSE 0

\* a count read from the store at every occurrence
UncachedCount(cache, fp, fresh) == fresh

\* lines 131-135: the cached count of the fingerprint, else the count read now
CachedCount(cache, fp, fresh) ==
    IF fp \in DOMAIN cache THEN cache[fp] ELSE fresh

\* _should_skip (lines 118-141) with a lookup that answers or fails: what it
\* raises, what it returns and ctx after the call.  Line 120 reads
\* ctx.config.skip_sent first: a config without that attribute raises
\* AttributeError before anything else is looked at.
_should_skip_io(dm, c, cfg, tbl, tgt, io) ==
    IF ~hasattr(cfg, "skip_sent")
    THEN [exception |-> "AttributeError", skip |-> FALSE, ctx |-> c]
    ELSE IF ~cfg.skip_sent THEN [exception |-> "", skip |-> FALSE, ctx |-> c]
    ELSE LET fp == _get_fingerprint(dm)
             current_occurrence == Get(c.local_counter, fp, 0) + 1
             db_count == CachedCount(c.db_count_cache, fp,
                                     count_records_io(tbl, tgt, dm, io))
             c2 == [c EXCEPT !.local_counter = Put(@, fp, current_occurrence),
                             !.db_count_cache = Put(@, fp, db_count)]
         IN  [exception |-> "", skip |-> current_occurrence <= db_count, ctx |-> c2]

\* _should_skip with a store that answers the lookup
_should_skip(dm, c, cfg, tbl, tgt) == _should_skip_io(dm, c, cfg, tbl, tgt, "ok")

\* the count test of _check_auto_stop with > for >=
CountLimitHitStrict(c, cfg) ==
    cfg.stop_after_count > 0 /\ c.success_count > cfg.stop_after_count

CountLimitHit(c, cfg) ==
    cfg.stop_after_count > 0 /\ c.success_count >= cfg.stop_after_count

\* _check_auto_stop with the time test not guarded by stop_after_time > 0
_check_auto_stop_unguarded(c, cfg, minutes) ==
    IF CountLimitHit(c, cfg) THEN "count"
    ELSE IF minutes >= cfg.stop_after_time THEN "time"
    ELSE ""

\* _check_auto_stop: the auto_stop_reason it sets, "" when it returns False
_check_auto_stop(c, cfg, minutes) ==
    IF CountLimitHit(c, cfg) THEN "count"
    ELSE IF cfg.stop_after_time > 0 /\ minutes >= cfg.stop_after_time THEN "time"
    ELSE ""

\* _log_send_summary: the branch of "end reason" it takes
_log_send_summary(c, stop, total) ==
    IF c.auto_stop_reason # "" THEN "AUTO_STOPPED"
    ELSE IF stop THEN "CANCELLED"
    ELSE IF c.fatal_error_occurred THEN "FATAL_STOPPED"
    ELSE IF total = 0 THEN "EMPTY"
    ELSE "COMPLETED"

\* the slice danmakus[i+1:] where line 262 has danmakus[i:]
RemainingAfter(k) == k + 1

\* first index of the slice danmakus[i:] recorded when the loop head of item k
\* finds the stop event set
RemainingFrom(k) == k

\* the items a fatal stop at item k forgets to record
FatalTailNone(k, total) == total + 1

\* first index of the slice danmakus[i+1:] recorded after a fatal error at item k
FatalTail(k, total) == k + 1

\* _handle_send_result counting a failure that is not fatal as a success
_handle_send_result_lenient(result, c, k) ==
    IF _process_send_result(result)[2]
    THEN add_unsent([c EXCEPT !.fatal_error_occurred = TRUE], k, k, "fatal_error")
    ELSE [c EXCEPT !.success_count = @ + 1]

\* _handle_send_result lines 182-195: the context after the result of item k
_handle_send_result(result, c, k) ==
    IF _process_send_result(result)[2]
    THEN add_unsent([c EXCEPT !.fatal_error_occurred = TRUE], k, k, "fatal_error")
    ELSE IF ~_process_send_result(result)[1]
    THEN add_unsent(c, k, k, "failed")
    ELSE [c EXCEPT !.success_count = @ + 1]

\* a result callback that records nothing
_save_to_db_cb_nothing(tbl, tgt, dm, result, now, io) == tbl

\* _save_to_db_cb; io is what sqlite3 does in the INSERT of record_danmaku
_save_to_db_cb(tbl, tgt, dm, result, now, io) ==
    IF result.is_success /\ result.dmid # ""
    THEN record_danmaku(tbl, tgt,
                        IF dm.dmid = "" THEN [dm EXCEPT !.dmid = result.dmid] ELSE dm,
                        result.is_visible, now, io)
    ELSE tbl

\* an entry of the run's event log: a submission starts, returns, raises, or
\* the result callback is called, for the item at index k
Event(e, k) == [e |-> e, idx |-> k]

\* enumerate(danmakus) handing out the same index again
NextIndexRepeat(k) == k

\* enumerate(danmakus): the index of the iteration after the one at index k
NextIndex(k) == k + 1

\* an auto-reset event: the poll that sees the event clears it
AfterPollCleared(flag) == FALSE

\* threading.Event after is_set() or wait(timeout): what it was; only
\* clear() resets it, and the run never calls it
AfterPoll(flag) == flag

\* time.sleep(seconds): the event does not end the wait
SleepWakes(flag) == FALSE

\* an Event.wait that sleeps through the event
EventWaitSleeps(flag) == FALSE

\* threading.Event.wait(timeout) ends as soon as the event is set
EventWaitWakes(flag) == flag

\* seconds of time.sleep after a FREQ_LIMIT answer (line 101)
FREQ_LIMIT_COOLDOWN == 10

\* the sleep taken after every failed submission
triggers_cooldown_any_failure(result) == ~result.is_success

\* lines 99-101: the else branch of is_success, code FREQ_LIMIT
triggers_cooldown(result) == ~result.is_success /\ result.code = FREQ_LIMIT

Running == {"start", "loop", "send", "cooldown", "wait", "sleeping", "summary"}

(***************************************************************************)
(* Actions of the send run.                                                *)
(***************************************************************************)
\* lines 236-257: reset, the empty batch (summary, then progress (0, 0)),
\* the DelayManager, progress (0, total)
Start ==
    /\ pc = "start"
    /\ unsent_danmakus' = <<>>
    /\ ctx' = NewContext
    /\ delay_count' = 0
    /\ IF Total = 0
       THEN /\ summary' = _log_send_summary(NewContext, stop_event, 0)
            /\ pc' = "done"
            /\ run' = [run EXCEPT !.db0 = db, !.exit = "COMPLETED",
                                  !.progress = Some(<<0, 0>>)]
       ELSE /\ pc' = "loop"
            /\ run' = [run EXCEPT !.db0 = db, !.progress = Some(<<0, Total>>)]
            /\ UNCHANGED summary
    /\ UNCHANGED <<db, call, exc, found, target, danmakus, config, stop_event, i, elapsed,
                   auxVars>>

\* attempted_count incremented ahead of the skip check
CountSkipAsAttempt(c) == [c EXCEPT !.skipped_count = @ + 1, !.attempted_count = @ + 1]

\* lines 269-271: ctx.skipped_count += 1; continue
CountSkip(c) == [c EXCEPT !.skipped_count = @ + 1]

\* lines 265-266: progress_callback(i + 1, ctx.total), i counted from 0
Progress(r, done, total) == [r EXCEPT !.progress = Some(<<done, total>>)]

\* lines 259-275: the stop check, the progress callback, the skip check (an
\* exception of it leaves the loop and send_danmaku_from_list: nothing
\* catches it before SendTaskWorker.run), attempted_count
LoopHeadIO(io) ==
    /\ pc = "loop"
    /\ io # "ok" =>
          /\ ~stop_event
          /\ hasattr(config, "skip_sent")
          /\ config.skip_sent
          /\ _get_fingerprint(danmakus[i]) \notin DOMAIN ctx.db_count_cache
    /\ IF stop_event
       THEN /\ ctx' = add_unsent(ctx, RemainingFrom(i), Total, "manual_stop")
            /\ pc' = "summary"
            /\ run' = [run EXCEPT !.exit = "CANCELLED"]
            /\ i' = i
       ELSE LET sk == _should_skip_io(danmakus[i], ctx, config, db, target, io)
                lookups == IF io = "ok" THEN run.lookup_faults
                           ELSE run.lookup_faults \cup {i}
                told == Progress(run, i, Total)
            IN  IF sk.exception # ""
                THEN /\ ctx' = ctx
                     /\ pc' = "raised"
                     /\ i' = i
                     /\ run' = [told EXCEPT !.exit = "RAISED",
                                            !.skip_check = sk.exception]
                ELSE IF sk.skip
                THEN /\ ctx' = CountSkip(sk.ctx)
                     /\ IF i = Total
                        THEN /\ pc' = "summary"
                             /\ i' = i
                             /\ run' = [told EXCEPT !.skipped = @ \cup {i},
                                                    !.lookup_faults = lookups,
                                                    !.exit = "COMPLETED"]
                        ELSE /\ pc' = "loop"
                             /\ i' = NextIndex(i)
                             /\ run' = [told EXCEPT !.skipped = @ \cup {i},
                                                    !.lookup_faults = lookups]
                ELSE /\ ctx' = [sk.ctx EXCEPT !.attempted_count = @ + 1]
                     /\ pc' = "send"
                     /\ i' = i
                     /\ run' = [told EXCEPT !.events = Append(@, Event("submit", i)),
                                            !.lookup_faults = lookups]
    /\ stop_event' = AfterPoll(stop_event)
    /\ UNCHANGED <<db, call, exc, found, target, danmakus, config, unsent_danmakus,
                   summary, elapsed, delay_count, auxVars>>

\* the same with a store that answers the lookup
LoopHead == LoopHeadIO("ok")

\* lines 88-91 and 106-116: requests raises inside post_danmaku.  The guard
\* turns it into a BiliApiException (or fails itself); the handler of
\* _send_single_danmaku evaluates danmaku.get(...), which a Danmaku does not
\* have, so an AttributeError leaves the handler and the run.
SendRaises(api) ==
    /\ pc = "send"
    /\ api.kind = "raise"
    /\ LET e == _network_guards(api.err)
       IN  run' = [run EXCEPT !.submitted = Append(@, i),
                              !.events = Append(@, Event("raise", i)),
                              !.exit = "RAISED",
                              !.last = [idx |-> i, kind |-> "raise", err |-> api.err,
                                        code |-> IF e.type = "BiliApiException"
                                                 THEN Some(normalize_exception(e))
                                                 ELSE None,
                                        dmid |-> "", outcome |-> "raised"]]
    /\ pc' = "raised"
    /\ UNCHANGED <<db, call, exc, found, target, danmakus, config, stop_event, i, ctx,
                   unsent_danmakus, summary, elapsed, delay_count, auxVars>>

\* lines 91-101: post_danmaku answers code FREQ_LIMIT and time.sleep(10) starts
Cooldown(api) ==
    /\ pc = "send"
    /\ api.kind = "response"
    /\ triggers_cooldown(from_api_response(api.resp))
    /\ pc' = "cooldown"
    /\ pace' = [NoPace EXCEPT !.kind = "cooldown", !.delay = Some(FREQ_LIMIT_COOLDOWN)]
    /\ UNCHANGED <<db, call, exc, found, target, danmakus, config, stop_event, i, ctx,
                   unsent_danmakus, summary, elapsed, delay_count, run, mon, hm,
                   session, power>>

\* line 101: time.sleep(10) sleeps on, whatever the stop event
CooldownSleeps ==
    /\ pc = "cooldown"
    /\ ~SleepWakes(stop_event)
    /\ pace.waited < The(pace.delay)
    /\ pace' = [pace EXCEPT !.waited = The(pace.delay)]
    /\ UNCHANGED <<db, call, exc, found, target, danmakus, config, stop_event, pc, i, ctx,
                   unsent_danmakus, summary, elapsed, delay_count, run, mon, hm,
                   session, power>>

\* what storing the result can do: the write succeeds, sqlite3 raises inside
\* record_danmaku, or the result callback itself raises
StoreOutcomes == {"ok", "storage_error", "callback_error"}

\* no handler: the exception leaves the callback and _handle_send_result
CaughtNowhere(io) == ""

\* the except clause that catches the exception: record_danmaku lines 122-123
\* for one raised by sqlite3, _handle_send_result lines 179-180 for one that
\* leaves the callback
CaughtAt(io) ==
    IF io = "storage_error" THEN "record_danmaku"
    ELSE IF io = "callback_error" THEN "_handle_send_result"
    ELSE ""

\* lines 277-300 when post_danmaku answers: _send_single_danmaku (after its
\* sleep when the answer is FREQ_LIMIT), the result callback (storing the
\* result does io), _handle_send_result, the fatal stop, _check_auto_stop,
\* last item
SendAnswersIO(api, io) ==
    /\ api.kind = "response"
    /\ IF triggers_cooldown(from_api_response(api.resp))
       THEN pc = "cooldown" /\ pace.waited = The(pace.delay)
       ELSE pc = "send"
    /\ io # "ok" =>
          from_api_response(api.resp).is_success /\ from_api_response(api.resp).dmid # ""
    /\ LET result == from_api_response(api.resp)
           dm == danmakus[i]
           dm2 == IF result.is_success /\ result.dmid # ""
                  THEN [dm EXCEPT !.dmid = result.dmid] ELSE dm
           psr == _process_send_result(result)
           c1 == _handle_send_result(result, ctx, i)
           auto == _check_auto_stop(c1, config, elapsed)
           outcome == IF psr[2] THEN "fatal" ELSE IF psr[1] THEN "success" ELSE "retryable"
           last == [idx |-> i, kind |-> "response", err |-> "",
                    code |-> Some(result.code), dmid |-> result.dmid, outcome |-> outcome]
           \* line 277 returns, then line 178 calls result_callback
           events == run.events \o <<Event("return", i), Event("callback", i)>>
           answered == [run EXCEPT !.submitted = Append(@, i), !.last = last,
                                   !.events = events,
                                   !.faults = IF io = "ok" THEN @ ELSE @ \cup {i}]
       IN  /\ danmakus' = [danmakus EXCEPT ![i] = dm2]
           /\ db' = IF io = "callback_error" THEN db
                    ELSE _save_to_db_cb(db, target, dm2, result, elapsed, io)
           /\ call' = IF result.is_success /\ result.dmid # "" /\ io # "callback_error"
                      THEN [NoCall EXCEPT !.op = "record_danmaku", !.dmid = dm2.dmid,
                                          !.io = io]
                      ELSE call
           /\ IF io # "ok" /\ CaughtAt(io) = ""
              THEN /\ ctx' = ctx
                   /\ pc' = "raised"
                   /\ stop_event' = stop_event
                   /\ run' = [answered EXCEPT !.exit = "RAISED"]
              ELSE IF psr[2]
              THEN /\ ctx' = add_unsent(c1, FatalTail(i, Total), Total, "after_fatal")
                   /\ pc' = "summary"
                   /\ stop_event' = stop_event
                   /\ run' = [answered EXCEPT !.exit = "FATAL_STOPPED"]
              ELSE IF auto # ""
              THEN /\ ctx' = add_unsent([c1 EXCEPT !.auto_stop_reason = auto],
                                        i + 1, Total, "auto_stop")
                   /\ pc' = "summary"
                   /\ stop_event' = TRUE
                   /\ run' = [answered EXCEPT !.exit = "AUTO_STOPPED"]
              ELSE /\ ctx' = c1
                   /\ stop_event' = stop_event
                   /\ pc' = IF i = Total THEN "summary" ELSE "wait"
                   /\ run' = [answered EXCEPT
                                 !.exit = IF i = Total THEN "COMPLETED" ELSE @]
    /\ pace' = NoPace
    /\ UNCHANGED <<exc, found, target, config, i, unsent_danmakus, summary, elapsed,
                   delay_count, mon, hm, session, power>>

\* the same with a store that works
SendAnswers(api) == SendAnswersIO(api, "ok")

\* delay_manager.py lines 54-70: the entry check and the counter
Wait ==
    /\ pc = "wait"
    /\ IF stop_event
       THEN /\ ctx' = add_unsent(ctx, i + 1, Total, "manual_stop")
            /\ pc' = "summary"
            /\ run' = [run EXCEPT !.exit = "CANCELLED"]
            /\ delay_count' = delay_count
       ELSE /\ delay_count' = delay_count + 1
            /\ pc' = "sleeping"
            /\ UNCHANGED <<ctx, run>>
    /\ stop_event' = AfterPoll(stop_event)
    /\ UNCHANGED <<db, call, exc, found, target, danmakus, config, i, unsent_danmakus,
                   summary, elapsed, auxVars>>

\* delay_manager.py lines 72-76: stop_event.wait(timeout=delay) returns
Sleeping ==
    /\ pc = "sleeping"
    /\ IF stop_event
       THEN /\ ctx' = add_unsent(ctx, i + 1, Total, "manual_stop")
            /\ pc' = "summary"
            /\ run' = [run EXCEPT !.exit = "CANCELLED"]
            /\ i' = i
       ELSE /\ pc' = "loop"
            /\ i' = NextIndex(i)
            /\ UNCHANGED <<ctx, run>>
    /\ stop_event' = AfterPoll(stop_event)
    /\ UNCHANGED <<db, call, exc, found, target, danmakus, config, unsent_danmakus,
                   summary, elapsed, delay_count, auxVars>>

\* lines 303-305
Summary ==
    /\ pc = "summary"
    /\ unsent_danmakus' = ctx.unsent_records
    /\ summary' = _log_send_summary(ctx, stop_event, Total)
    /\ pc' = "done"
    /\ stop_event' = AfterPoll(stop_event)
    /\ UNCHANGED <<db, call, exc, found, target, danmakus, config, i, ctx, elapsed,
                   delay_count, run, auxVars>>

\* the user presses stop (sender_tab.py line 406) while the run is going
UserStop ==
    /\ pc \in Running
    /\ ~stop_event
    /\ stop_event' = TRUE
    /\ UNCHANGED <<db, call, exc, found, target, danmakus, config, pc, i, ctx,
                   unsent_danmakus, summary, elapsed, delay_count, run, auxVars>>

\* a minute passes while the run blocks in the network call, in time.sleep
\* or in a stop_event.wait that the event has not ended
Tick ==
    /\ pc \in {"send", "cooldown", "sleeping"}
    /\ pc = "sleeping" => ~EventWaitWakes(stop_event)
    /\ elapsed < MaxMinutes
    /\ elapsed' = elapsed + 1
    /\ UNCHANGED <<db, call, exc, found, target, danmakus, config, stop_event, pc, i,
                   ctx, unsent_danmakus, summary, delay_count, run, auxVars>>

\* a row an earlier run left: the mode-1 payload, sent to the part with that cid
PriorRow(cid, d, st) ==
    Row(CHOOSE t \in Targets : t.cid = cid,
        Danmaku(CHOOSE p \in Payloads : p.mode = 1, d), TRUE, 0, st)

\* the table at run start: no row, one or two rows under cid 1 in any status,
\* or a PENDING row under cid 2 alone or beside one under cid 1
PriorDbs ==
    {{PriorRow(1, "p1", s1)} : s1 \in Statuses}
    \cup {{PriorRow(1, "p1", st[1]), PriorRow(1, "p2", st[2])} :
              st \in {x \in Statuses \X Statuses : x[1] <= x[2]}}
    \cup {{}, {PriorRow(2, "p1", PENDING)},
            {PriorRow(1, "p1", PENDING), PriorRow(2, "p2", PENDING)}}

\* the config handed to the run: SenderConfig().from_dict(data) as the
\* configuration manager builds it (config_manager.py line 45), or that
\* object with skip_sent set on it by the caller, the only config with which
\* line 120 of bili_sender.py does not raise
ConfigOf(data, carries) ==
    IF carries /\ hasattr(data, "skip_sent")
    THEN Put(from_dict(SenderConfig, data), "skip_sent", data.skip_sent)
    ELSE from_dict(SenderConfig, data)

\* skip_sent asked for in the saved settings
SkipAsked == hasattr(run.settings, "skip_sent") /\ run.settings.skip_sent

\* the config of the run carries skip_sent and it is on
SkipOn == hasattr(config, "skip_sent") /\ config.skip_sent

SendInit ==
    /\ db \in PriorDbs
    /\ call = NoCall
    /\ ClassIdle
    /\ target = CHOOSE t \in Targets : t.cid = 1
    /\ danmakus \in Batches
    /\ \E data \in SettingsData, carries \in BOOLEAN :
          /\ carries => hasattr(data, "skip_sent")
          /\ config = ConfigOf(data, carries)
          /\ run = [NoRun EXCEPT !.settings = data]
    /\ stop_event = FALSE
    /\ pc = "start"
    /\ i = 1
    /\ ctx = NewContext
    /\ unsent_danmakus = <<>>
    /\ summary = ""
    /\ elapsed = 0
    /\ delay_count = 0
    /\ AuxIdle

SendNext ==
    \/ Start
    \/ LoopHead
    \/ \E api \in ApiOutcomes(i) : SendRaises(api)
    \/ \E api \in ApiOutcomes(i) : Cooldown(api)
    \/ CooldownSleeps
    \/ \E api \in ApiOutcomes(i) : SendAnswers(api)
    \/ Wait
    \/ Sleeping
    \/ Summary
    \/ UserStop
    \/ Tick

SpecSend == SendInit /\ [][SendNext]_vars

(***************************************************************************)
(* The send run with a store that can fail: writing the record of an       *)
(* accepted item may raise.                                                *)
(***************************************************************************)
FaultInit ==
    /\ SendInit
    /\ db \in {{}, {PriorRow(1, "p1", PENDING)}}

FaultNext ==
    \/ Start
    \/ LoopHead
    \/ \E api \in ApiOutcomes(i) : SendRaises(api)
    \/ \E api \in ApiOutcomes(i) : Cooldown(api)
    \/ CooldownSleeps
    \/ \E api \in ApiOutcomes(i), io \in StoreOutcomes : SendAnswersIO(api, io)
    \/ Wait
    \/ Sleeping
    \/ Summary
    \/ UserStop
    \/ Tick

SpecFault == FaultInit /\ [][FaultNext]_vars

(***************************************************************************)
(* The send run with skip_sent asked for in the settings and a store whose *)
(* lookup can fail: the SELECT of count_records may raise, and its handler *)
(* answers 0.                                                              *)
(***************************************************************************)
LookupInit ==
    /\ SendInit
    /\ SkipAsked
    /\ config.stop_after_time = 0
    /\ db \in {{}, {PriorRow(1, "p1", PENDING)},
                {PriorRow(1, "p1", PENDING), PriorRow(1, "p2", VERIFIED)}}

LookupNext ==
    \/ Start
    \/ \E io \in LookupOutcomes : LoopHeadIO(io)
    \/ \E api \in ApiOutcomes(i) : SendRaises(api)
    \/ \E api \in ApiOutcomes(i) : Cooldown(api)
    \/ CooldownSleeps
    \/ \E api \in ApiOutcomes(i) : SendAnswers(api)
    \/ Wait
    \/ Sleeping
    \/ Summary
    \/ UserStop
    \/ Tick

SpecLookup == LookupInit /\ [][LookupNext]_vars

(***************************************************************************)
(* The validator session of core/validator_session.py.  A content is the   *)
(* sequence of its characters; a danmaku is the dict the session reads     *)
(* (msg, progress, is_valid); an issue is the dict load_and_validate       *)
(* builds.  original_index counts from 0 as enumerate does.  session.op    *)
(* is the last operation called and session.ret what it returned;          *)
(* session.loaded_issues is the issue list load_and_validate left and      *)
(* session.history the issue lists as they were before each operation     *)
(* still on the undo stack; session.set_dirty_called tells whether a       *)
(* caller has written the flag through set_dirty.                          *)
(***************************************************************************)
\* danmakus loaded into the model
MaxLoaded == 2

\* operations of one session history
MaxSessionOps == 4

\* the content of 101 characters
LongContent == [k \in 1..101 |-> "a"]

\* the eight symbols of FORBIDDEN_SYMBOLS, each character by its name
FORBIDDEN_SYMBOLS ==
    {"(radioactive)", "(warning)", "(biohazard)", "(skull)", "(high voltage)",
     "(bomb)", "(crossed swords)", "(fire)"}

\* the characters str.strip() removes, those for which str.isspace() is
\* true: the ASCII ones, and the others each by its code point
Whitespace ==
    {" ", "\t", "\n", "\r", "\f", "U+000B", "U+001C", "U+001D", "U+001E", "U+001F",
     "U+0085", "U+00A0", "U+1680", "U+2000", "U+2001", "U+2002", "U+2003", "U+2004",
     "U+2005", "U+2006", "U+2007", "U+2008", "U+2009", "U+200A", "U+2028", "U+2029",
     "U+202F", "U+205F", "U+3000"}

\* the contents loaded: plain, with each newline form, with nothing but an
\* ideographic space (U+3000) beside the newline forms, with a forbidden
\* symbol, over-long
Contents ==
    {<<"a">>, <<"a", "/", "n">>, <<"/", "n">>, <<" ", "\\", "n">>, <<"a", "\n", "b">>,
     <<"/", "n", "U+3000", "/", "n">>, <<"(warning)">>, LongContent}

SessionDanmakus ==
    {[msg |-> c, progress |-> 1000, is_valid |-> FALSE] : c \in Contents}
    \cup {[msg |-> <<"a">>, progress |-> 9000, is_valid |-> FALSE]}

\* what the user types into an item
EditContents == {<<"a">>, <<"b", "/", "n">>, <<>>}

\* the part durations handed to load_and_validate
Durations == {-1, 5000}

\* the limits handed to batch_truncate_length: the default and a short one
TruncateLimits == {100, 1}

\* pat in s
Contains(s, pat) ==
    \E k \in 1..(Len(s) - Len(pat) + 1) : SubSeq(s, k, k + Len(pat) - 1) = pat

\* s.replace(pat, ''): the occurrences found from left to right, not overlapping
RECURSIVE Replace(_, _)
Replace(s, pat) ==
    IF Len(s) < Len(pat) THEN s
    ELSE IF SubSeq(s, 1, Len(pat)) = pat
         THEN Replace(SubSeq(s, Len(pat) + 1, Len(s)), pat)
         ELSE <<Head(s)>> \o Replace(Tail(s), pat)

\* s.strip()
RECURSIVE strip(_)
strip(s) ==
    IF s = <<>> THEN s
    ELSE IF Head(s) \in Whitespace THEN strip(Tail(s))
    ELSE IF s[Len(s)] \in Whitespace THEN strip(SubSeq(s, 1, Len(s) - 1))
    ELSE s

\* validate_danmaku_list lines 235-253: the reasons found for one danmaku
Reasons(dm, video_duration_ms) ==
    (IF Contains(dm.msg, <<"\\", "n">>) \/ Contains(dm.msg, <<"/", "n">>)
     THEN <<"newline">> ELSE <<>>)
    \o (IF Len(dm.msg) > 100 THEN <<"length">> ELSE <<>>)
    \o (IF video_duration_ms > 0 /\ dm.progress > video_duration_ms
        THEN <<"time">> ELSE <<>>)
    \o (IF \E k \in 1..Len(dm.msg) : dm.msg[k] \in FORBIDDEN_SYMBOLS
        THEN <<"forbidden">> ELSE <<>>)

\* validate_danmaku_list: the list with is_valid set, and the problems; the
\* danmaku of a problem is the item of the list, with is_valid set False
\* (line 257)
validate_danmaku_list(danmaku_list, video_duration_ms) ==
    [list |-> [k \in 1..Len(danmaku_list) |->
                  [danmaku_list[k] EXCEPT
                      !.is_valid = Reasons(danmaku_list[k], video_duration_ms) = <<>>]],
     problems |-> LET bad == {k \in 1..Len(danmaku_list) :
                                 Reasons(danmaku_list[k], video_duration_ms) # <<>>}
                      RECURSIVE collect(_)
                      collect(k) ==
                          IF k > Len(danmaku_list) THEN <<>>
                          ELSE (IF k \in bad
                                THEN <<[original_index |-> k - 1,
                                        danmaku |-> [danmaku_list[k] EXCEPT
                                                        !.is_valid = FALSE],
                                        reason |-> Reasons(danmaku_list[k],
                                                           video_duration_ms)]>>
                                ELSE <<>>) \o collect(k + 1)
                  IN  collect(1)]

\* lines 64-71: the issue built from a problem
IssueOf(problem) ==
    [original_index |-> problem.original_index,
     time_ms |-> problem.danmaku.progress,
     reason |-> problem.reason,
     current_content |-> problem.danmaku.msg,
     is_deleted |-> FALSE]

\* load_and_validate
load_and_validate(s, duration_ms) ==
    IF s.loaded_danmakus = <<>> THEN [s EXCEPT !.ret = <<FALSE>>]
    ELSE LET v == validate_danmaku_list(s.loaded_danmakus, duration_ms)
             issues == [k \in 1..Len(v.problems) |-> IssueOf(v.problems[k])]
         IN  [s EXCEPT !.original_snapshot = v.list,
                       !.current_issues = issues,
                       !.undo_stack = <<>>,
                       !.validator_is_dirty = FALSE,
                       !.loaded_issues = issues,
                       !.history = <<>>,
                       !.ret = <<Len(issues) > 0>>]

\* _push_undo_record pushing an empty group of changes as well
_push_undo_record_always(s, changes) ==
    [s EXCEPT !.undo_stack = Append(@, changes), !.validator_is_dirty = TRUE,
              !.history = Append(@, s.current_issues)]

\* _push_undo_record: a non-empty group of changes goes on the stack and the
\* session is dirty
_push_undo_record(s, changes) ==
    IF changes # <<>>
    THEN [s EXCEPT !.undo_stack = Append(@, changes), !.validator_is_dirty = TRUE,
                   !.history = Append(@, s.current_issues)]
    ELSE s

\* the position of the first issue with that original_index, 0 when none has it
RECURSIVE FirstWith(_, _, _)
FirstWith(issues, original_index, k) ==
    IF k > Len(issues) THEN 0
    ELSE IF issues[k].original_index = original_index THEN k
    ELSE FirstWith(issues, original_index, k + 1)

ChangedRecord(original_index, field, old_value) ==
    [original_index |-> original_index, field |-> field, old_value |-> old_value]

\* undo putting back the first change of the group only
RestoreFirst(issues, changes, k) ==
    IF changes = <<>> THEN issues
    ELSE LET at == FirstWith(issues, changes[1].original_index, 1)
         IN  IF at = 0 THEN issues
             ELSE [issues EXCEPT ![at][changes[1].field] = changes[1].old_value]

\* lines 100-108: the changes of a group put back, from the k-th on, in order
RECURSIVE Restore(_, _, _)
Restore(issues, changes, k) ==
    IF k > Len(changes) THEN issues
    ELSE LET at == FirstWith(issues, changes[k].original_index, 1)
         IN  Restore(IF at = 0 THEN issues
                     ELSE [issues EXCEPT ![at][changes[k].field] = changes[k].old_value],
                     changes, k + 1)

\* undo
undo(s) ==
    IF s.undo_stack = <<>> THEN [s EXCEPT !.ret = <<FALSE>>]
    ELSE LET last_changes == s.undo_stack[Len(s.undo_stack)]
             rest == SubSeq(s.undo_stack, 1, Len(s.undo_stack) - 1)
         IN  [s EXCEPT !.undo_stack = rest,
                       !.current_issues = Restore(@, last_changes, 1),
                       !.validator_is_dirty = rest # <<>>,
                       !.history = SubSeq(@, 1, Len(@) - 1),
                       !.ret = <<TRUE>>]

\* update_item_content
update_item_content(s, original_index, new_content) ==
    LET at == FirstWith(s.current_issues, original_index, 1)
    IN  IF at = 0 \/ s.current_issues[at].current_content = new_content
        THEN [s EXCEPT !.ret = <<>>]
        ELSE [_push_undo_record(s, <<ChangedRecord(original_index, "current_content",
                                       s.current_issues[at].current_content)>>)
                 EXCEPT !.current_issues[at].current_content = new_content,
                        !.ret = <<>>]

\* delete_item
delete_item(s, original_index) ==
    LET at == FirstWith(s.current_issues, original_index, 1)
    IN  IF at = 0 \/ s.current_issues[at].is_deleted
        THEN [s EXCEPT !.ret = <<>>]
        ELSE [_push_undo_record(s, <<ChangedRecord(original_index, "is_deleted",
                                       s.current_issues[at].is_deleted)>>)
                 EXCEPT !.current_issues[at].is_deleted = TRUE,
                        !.ret = <<>>]

\* line 163: one of the three newline forms is in the content
has_newline(content) ==
    \/ Contains(content, <<"\n">>)
    \/ Contains(content, <<"\\", "n">>)
    \/ Contains(content, <<"/", "n">>)

\* line 164: the three replace calls, in their order
remove_newlines(content) ==
    Replace(Replace(Replace(content, <<"\n">>), <<"\\", "n">>), <<"/", "n">>)

\* lines 158-182: the loop of batch_remove_newlines from the k-th issue on;
\* acc holds the issues, the changes and the two counts
RECURSIVE NewlineLoop(_, _)
NewlineLoop(acc, k) ==
    IF k > Len(acc.issues) THEN acc
    ELSE LET item == acc.issues[k]
             new_content == remove_newlines(item.current_content)
             content_change == ChangedRecord(item.original_index, "current_content",
                                             item.current_content)
         IN  IF item.is_deleted \/ ~has_newline(item.current_content)
             THEN NewlineLoop(acc, k + 1)
             ELSE IF strip(new_content) = <<>>
             THEN NewlineLoop(
                    [acc EXCEPT
                       !.changes = @ \o <<content_change,
                                          ChangedRecord(item.original_index, "is_deleted",
                                                        item.is_deleted)>>,
                       !.issues[k].is_deleted = TRUE,
                       !.deleted_count = @ + 1], k + 1)
             ELSE NewlineLoop(
                    [acc EXCEPT
                       !.changes = Append(@, content_change),
                       !.issues[k].current_content = new_content,
                       !.modified_count = @ + 1], k + 1)

\* batch_remove_newlines
batch_remove_newlines(s) ==
    LET acc == NewlineLoop([issues |-> s.current_issues, changes |-> <<>>,
                            modified_count |-> 0, deleted_count |-> 0], 1)
    IN  [_push_undo_record(s, acc.changes)
            EXCEPT !.current_issues = acc.issues,
                   !.ret = <<acc.modified_count, acc.deleted_count>>]

\* lines 201-213: the loop of batch_truncate_length from the k-th issue on
RECURSIVE TruncateLoop(_, _, _)
TruncateLoop(acc, limit, k) ==
    IF k > Len(acc.issues) THEN acc
    ELSE LET item == acc.issues[k]
         IN  IF item.is_deleted \/ ~(Len(item.current_content) > limit)
             THEN TruncateLoop(acc, limit, k + 1)
             ELSE TruncateLoop(
                    [acc EXCEPT
                       !.changes = Append(@, ChangedRecord(item.original_index,
                                                "current_content", item.current_content)),
                       !.issues[k].current_content = SubSeq(item.current_content, 1, limit),
                       !.count = @ + 1], limit, k + 1)

\* batch_truncate_length
batch_truncate_length(s, limit) ==
    LET acc == TruncateLoop([issues |-> s.current_issues, changes |-> <<>>,
                             count |-> 0], limit, 1)
    IN  [_push_undo_record(s, acc.changes)
            EXCEPT !.current_issues = acc.issues, !.ret = <<acc.count>>]

\* lines 230-264: the final list from the k-th danmaku of the snapshot on; a
\* valid danmaku is kept, an issue that is not deleted gives a fixed one
RECURSIVE ApplyLoop(_, _, _, _)
ApplyLoop(snapshot, issues, acc, k) ==
    IF k > Len(snapshot) THEN acc
    ELSE LET dm == snapshot[k]
             hits == {x \in 1..Len(issues) : issues[x].original_index = k - 1}
             issue_record == issues[CHOOSE x \in hits : \A y \in hits : y <= x]
         IN  IF dm.is_valid \/ hits = {}
             THEN ApplyLoop(snapshot, issues,
                            [acc EXCEPT !.new_list = Append(@, dm)], k + 1)
             ELSE IF issue_record.is_deleted
             THEN ApplyLoop(snapshot, issues,
                            [acc EXCEPT !.deleted_count = @ + 1], k + 1)
             ELSE ApplyLoop(snapshot, issues,
                            [acc EXCEPT
                               !.new_list = Append(@, [dm EXCEPT
                                               !.msg = issue_record.current_content,
                                               !.is_valid = TRUE]),
                               !.fixed_count = @ + 1], k + 1)

\* apply_changes
apply_changes(s) ==
    IF s.original_snapshot = <<>> THEN [s EXCEPT !.ret = <<0, 0, 0>>]
    ELSE LET acc == ApplyLoop(s.original_snapshot, s.current_issues,
                              [new_list |-> <<>>, fixed_count |-> 0,
                               deleted_count |-> 0], 1)
         IN  [s EXCEPT !.loaded_danmakus = acc.new_list,
                       !.undo_stack = <<>>,
                       !.validator_is_dirty = FALSE,
                       !.original_snapshot = <<>>,
                       !.current_issues = <<>>,
                       !.loaded_issues = <<>>,
                       !.history = <<>>,
                       !.ret = <<Len(acc.new_list), acc.fixed_count, acc.deleted_count>>]

sessionFrame ==
    <<db, call, exc, found, target, danmakus, config, stop_event, pc, i, ctx,
      unsent_danmakus, summary, elapsed, delay_count, run, pace, mon, hm, power>>

\* the user calls an operation of the session; after is the session it leaves
SessionCall(name, after) ==
    /\ pc = "session"
    /\ session.ops < MaxSessionOps
    /\ session' = [after EXCEPT !.op = name, !.ops = session.ops + 1]
    /\ UNCHANGED sessionFrame

LoadAndValidate(duration_ms) ==
    SessionCall("load_and_validate", load_and_validate(session, duration_ms))

UpdateItemContent(original_index, new_content) ==
    SessionCall("update_item_content",
                update_item_content(session, original_index, new_content))

DeleteItem(original_index) ==
    SessionCall("delete_item", delete_item(session, original_index))

BatchRemoveNewlines ==
    SessionCall("batch_remove_newlines", batch_remove_newlines(session))

BatchTruncateLength(limit) ==
    SessionCall("batch_truncate_length", batch_truncate_length(session, limit))

Undo == SessionCall("undo", undo(session))

\* set_dirty (lines 40-41) called from outside the session
set_dirty(s, dirty) == [s EXCEPT !.validator_is_dirty = dirty, !.ret = <<>>]

SetDirty(dirty) ==
    SessionCall("set_dirty", [set_dirty(session, dirty) EXCEPT !.set_dirty_called = TRUE])

ApplyChanges == SessionCall("apply_changes", apply_changes(session))

SessionInit ==
    /\ db = {}
    /\ call = NoCall
    /\ ClassIdle
    /\ target = CHOOSE t \in Targets : t.cid = 1
    /\ danmakus = <<>>
    /\ config = SenderConfig
    /\ stop_event = FALSE
    /\ pc = "session"
    /\ i = 1
    /\ ctx = NewContext
    /\ unsent_danmakus = <<>>
    /\ summary = ""
    /\ elapsed = 0
    /\ delay_count = 0
    /\ run = NoRun
    /\ pace = NoPace
    /\ mon = NoMon
    /\ hm = NoHm
    /\ \E loaded \in SeqsUpTo(SessionDanmakus, MaxLoaded) :
           session = [NoSession EXCEPT !.loaded_danmakus = loaded]
    /\ power = NoPower

SessionNext ==
    \/ \E d \in Durations : LoadAndValidate(d)
    \/ \E k \in 0..MaxLoaded, c \in EditContents : UpdateItemContent(k, c)
    \/ \E k \in 0..MaxLoaded : DeleteItem(k)
    \/ BatchRemoveNewlines
    \/ \E limit \in TruncateLimits : BatchTruncateLength(limit)
    \/ Undo
    \/ ApplyChanges
    \/ \E dirty \in BOOLEAN : SetDirty(dirty)

SpecSession == SessionInit /\ [][SessionNext]_vars

(***************************************************************************)
(* Sleep prevention, utils/system_utils.py: several threads call           *)
(* PowerManagement.prevent_sleep and allow_sleep.  The counter is read and *)
(* written holding _sleep_lock; the call of SetThreadExecutionState comes  *)
(* after the with block, the lock released.  power.state is the execution  *)
(* state the last call of the API left, power.api the calls of the API in  *)
(* order, each with the change of the counter that led to it, and          *)
(* power.th[t] where thread t stands and the calls it has returned from.   *)
(***************************************************************************)
\* threads that call PowerManagement
MaxPowerThreads == 2

\* calls of one thread
MaxPowerCalls == 2

PowerThreads == 1..MaxPowerThreads

\* thread t stands at q
PowerGoto(t, q) == [power EXCEPT !.th[t].pc = q]

\* thread t returns from its call
PowerReturn(p, t) == [p EXCEPT !.th[t].pc = "idle", !.th[t].calls = @ + 1]

powerFrame ==
    <<db, call, exc, found, target, danmakus, config, stop_event, pc, i, ctx,
      unsent_danmakus, summary, elapsed, delay_count, run, pace, mon, hm, session>>

\* lines 28-29 and 54-55: not on Windows, either call returns at once
PowerNotWindows(t) ==
    /\ pc = "power"
    /\ ~power.IS_WINDOWS
    /\ power.th[t].pc = "idle"
    /\ power.th[t].calls < MaxPowerCalls
    /\ power' = PowerReturn(power, t)
    /\ UNCHANGED powerFrame

\* line 31: prevent_sleep enters the with block
PreventEnter(t) ==
    /\ pc = "power"
    /\ power.IS_WINDOWS
    /\ power.th[t].pc = "idle"
    /\ power.th[t].calls < MaxPowerCalls
    /\ power._sleep_lock = {}
    /\ power' = [PowerGoto(t, "prevent_locked") EXCEPT !._sleep_lock = {t}]
    /\ UNCHANGED powerFrame

\* lines 32-37: the counter goes up; above 1 the call returns, and the with
\* block is left either way
PreventCount(t) ==
    /\ pc = "power"
    /\ power.th[t].pc = "prevent_locked"
    /\ LET current_count == power._prevent_sleep_count + 1
           counted == [power EXCEPT !._prevent_sleep_count = current_count,
                                    !._sleep_lock = {},
                                    !.th[t].from = power._prevent_sleep_count]
       IN  power' = IF current_count > 1
                    THEN PowerReturn(counted, t)
                    ELSE [counted EXCEPT !.th[t].pc = "prevent_api"]
    /\ UNCHANGED powerFrame

\* lines 40-44: SetThreadExecutionState(ES_CONTINUOUS | ES_SYSTEM_REQUIRED)
PreventApi(t) ==
    /\ pc = "power"
    /\ power.th[t].pc = "prevent_api"
    /\ power' = PowerReturn(
                  [power EXCEPT
                     !.state = "system_required",
                     !.api = Append(@, [call |-> "enable", from |-> power.th[t].from,
                                        to |-> power.th[t].from + 1])], t)
    /\ UNCHANGED powerFrame

\* line 59: allow_sleep enters the with block
AllowEnter(t) ==
    /\ pc = "power"
    /\ power.IS_WINDOWS
    /\ power.th[t].pc = "idle"
    /\ power.th[t].calls < MaxPowerCalls
    /\ power._sleep_lock = {}
    /\ power' = [PowerGoto(t, "allow_locked") EXCEPT !._sleep_lock = {t}]
    /\ UNCHANGED powerFrame

\* lines 60-71: at 0 the call returns; else the counter goes down, and above
\* 0 the call returns; the with block is left either way
AllowCount(t) ==
    /\ pc = "power"
    /\ power.th[t].pc = "allow_locked"
    /\ LET unlocked == [power EXCEPT !._sleep_lock = {},
                                     !.th[t].from = power._prevent_sleep_count]
           current_count == power._prevent_sleep_count - 1
           counted == [unlocked EXCEPT !._prevent_sleep_count = current_count]
       IN  power' = IF power._prevent_sleep_count = 0 THEN PowerReturn(unlocked, t)
                    ELSE IF current_count > 0 THEN PowerReturn(counted, t)
                    ELSE [counted EXCEPT !.th[t].pc = "allow_api"]
    /\ UNCHANGED powerFrame

\* lines 73-78: SetThreadExecutionState(ES_CONTINUOUS)
AllowApi(t) ==
    /\ pc = "power"
    /\ power.th[t].pc = "allow_api"
    /\ power' = PowerReturn(
                  [power EXCEPT
                     !.state = "default",
                     !.api = Append(@, [call |-> "reset", from |-> power.th[t].from,
                                        to |-> power.th[t].from - 1])], t)
    /\ UNCHANGED powerFrame

PowerInit ==
    /\ db = {}
    /\ call = NoCall
    /\ ClassIdle
    /\ target = CHOOSE t \in Targets : t.cid = 1
    /\ danmakus = <<>>
    /\ config = SenderConfig
    /\ stop_event = FALSE
    /\ pc = "power"
    /\ i = 1
    /\ ctx = NewContext
    /\ unsent_danmakus = <<>>
    /\ summary = ""
    /\ elapsed = 0
    /\ delay_count = 0
    /\ run = NoRun
    /\ pace = NoPace
    /\ mon = NoMon
    /\ hm = NoHm
    /\ session = NoSession
    /\ \E w \in BOOLEAN :
           power = [NoPower EXCEPT
                      !.IS_WINDOWS = w,
                      !.th = [t \in PowerThreads |-> [pc |-> "idle", calls |-> 0, from |-> 0]]]

PowerNext ==
    \E t \in PowerThreads :
        \/ PowerNotWindows(t)
        \/ PreventEnter(t)
        \/ PreventCount(t)
        \/ PreventApi(t)
        \/ AllowEnter(t)
        \/ AllowCount(t)
        \/ AllowApi(t)

SpecPower == PowerInit /\ [][PowerNext]_vars

(***************************************************************************)
(* The classifier on its own: an exception that post_danmaku raises inside *)
(* _send_single_danmaku, or a provider answer handed to from_api_response  *)
(* and then to _process_send_result.                                       *)
(***************************************************************************)
UnknownCodes == {12345, -500}

ClassifyInputs ==
    {BiliApiException(c, n) : c \in EnumCodes \cup UnknownCodes, n \in BOOLEAN}
    \cup {OtherException("Exception", c) :
             c \in {Some(x) : x \in EnumCodes \cup UnknownCodes} \cup {None}}
    \cup {[type |-> "response", code |-> Some(c), is_network_error |-> FALSE] :
             c \in EnumCodes \cup UnknownCodes}

Outcome(psr) == IF psr[2] THEN "fatal" ELSE IF psr[1] THEN "success" ELSE "retryable"

\* lines 106-109: the handler catches a BiliApiException only and hands it to
\* normalize_exception (found); the log message of line 109 then evaluates
\* danmaku.get(...), which a Danmaku does not have, so an AttributeError
\* leaves the handler before a result is built: nothing reaches
\* _process_send_result.  Any other exception passes the handler by.
ClassifyException ==
    /\ pc = "classify"
    /\ exc.type # "response"
    /\ found' = IF exc.type = "BiliApiException" THEN normalize_exception(exc) ELSE found
    /\ run' = [run EXCEPT !.last =
                 [idx |-> 0, kind |-> "raise", err |-> exc.type, code |-> exc.code,
                  dmid |-> "", outcome |-> "raised"]]
    /\ pc' = "raised"
    /\ UNCHANGED <<db, call, exc, target, danmakus, config, stop_event, i, ctx,
                   unsent_danmakus, summary, elapsed, delay_count, auxVars>>

ClassifyResponse ==
    /\ pc = "classify"
    /\ exc.type = "response"
    /\ LET result == from_api_response(Response(exc.code, "", TRUE))
       IN  /\ found' = IF from_code(result.code) = None
                       THEN UNKNOWN_ERROR ELSE The(from_code(result.code))
           /\ run' = [run EXCEPT !.last =
                        [idx |-> 0, kind |-> "response", err |-> "", code |-> exc.code,
                         dmid |-> "",
                         outcome |-> Outcome(_process_send_result(result))]]
    /\ pc' = "classified"
    /\ UNCHANGED <<db, call, exc, target, danmakus, config, stop_event, i, ctx,
                   unsent_danmakus, summary, elapsed, delay_count, auxVars>>

ClassifyInit ==
    /\ db = {}
    /\ call = NoCall
    /\ exc \in ClassifyInputs
    /\ found = SUCCESS
    /\ target = CHOOSE t \in Targets : t.cid = 1
    /\ danmakus = <<>>
    /\ config = SenderConfig
    /\ stop_event = FALSE
    /\ pc = "classify"
    /\ i = 1
    /\ ctx = NewContext
    /\ unsent_danmakus = <<>>
    /\ summary = ""
    /\ elapsed = 0
    /\ delay_count = 0
    /\ run = NoRun
    /\ AuxIdle

ClassifyNext == ClassifyException \/ ClassifyResponse

SpecClassify == ClassifyInit /\ [][ClassifyNext]_vars

(***************************************************************************)
(* The pacing wait on its own: one DelayManager, called again and again    *)
(* with one stop event that another thread may set at any moment.  Delays  *)
(* and time are whole seconds.  pace.signalled tells whether the event was *)
(* set before the call or while it waited.                                 *)
(***************************************************************************)
\* calls of wait_and_check_stop made on one DelayManager
MaxWaits == 5
\* largest burst_size tried
MaxBurst == 3

\* DelayManager(normal_min, normal_max, burst_size, rest_min, rest_max): the
\* defaults, and burst policies with a rest longer than the normal delay
PaceConfigs ==
    {[normal_min |-> 1, normal_max |-> 2, burst_size |-> 0, rest_min |-> 0, rest_max |-> 0]}
    \cup {[normal_min |-> 1, normal_max |-> 2, burst_size |-> b, rest_min |-> 3,
           rest_max |-> 4] : b \in 1..MaxBurst}

\* the long-rest test with "burst_size > 0" for "burst_size > 1"
is_long_rest_from_one(cfg, count) == cfg.burst_size > 0 /\ count % cfg.burst_size = 0

\* lines 60-62
is_long_rest(cfg, count) == cfg.burst_size > 1 /\ count % cfg.burst_size = 0

\* random.uniform(a, b)
uniform(a, b) == a..b

\* lines 54-70: the entry check, the counter, the delay drawn
PaceCall ==
    /\ pc = "pace_idle"
    /\ pace.calls < MaxWaits
    /\ IF stop_event
       THEN /\ pace' = [NoPace EXCEPT !.kind = "pacing", !.calls = pace.calls + 1,
                                      !.signalled = TRUE, !.returned = Some(TRUE)]
            /\ UNCHANGED <<delay_count, pc>>
       ELSE /\ delay_count' = delay_count + 1
            /\ \E d \in IF is_long_rest(config, delay_count + 1)
                         THEN uniform(config.rest_min, config.rest_max)
                         ELSE uniform(config.normal_min, config.normal_max) :
                  pace' = [NoPace EXCEPT !.kind = "pacing", !.calls = pace.calls + 1,
                                        !.delay = Some(d),
                                        !.is_long_rest =
                                            is_long_rest(config, delay_count + 1)]
            /\ pc' = "pace_wait"
    /\ stop_event' = AfterPoll(stop_event)
    /\ UNCHANGED <<db, call, exc, found, target, danmakus, config, i, ctx,
                   unsent_danmakus, summary, elapsed, run, mon, hm, session, power>>

\* a second passes while stop_event.wait(timeout=delay) blocks
PaceTick ==
    /\ pc = "pace_wait"
    /\ ~EventWaitWakes(stop_event)
    /\ pace.waited < The(pace.delay)
    /\ pace' = [pace EXCEPT !.waited = @ + 1]
    /\ UNCHANGED <<db, call, exc, found, target, danmakus, config, stop_event, pc, i, ctx,
                   unsent_danmakus, summary, elapsed, delay_count, run, mon, hm,
                   session, power>>

\* lines 72-76: stop_event.wait returns True when the event was set before
\* the timeout expired, False at the expiry
PaceReturn ==
    /\ pc = "pace_wait"
    /\ \/ /\ pace.waited < The(pace.delay)
          /\ EventWaitWakes(stop_event)
          /\ pace' = [pace EXCEPT !.returned = Some(TRUE)]
       \/ /\ pace.waited = The(pace.delay)
          /\ pace' = [pace EXCEPT !.returned = Some(FALSE)]
    /\ pc' = "pace_idle"
    /\ stop_event' = AfterPoll(stop_event)
    /\ UNCHANGED <<db, call, exc, found, target, danmakus, config, i, ctx,
                   unsent_danmakus, summary, elapsed, delay_count, run, mon, hm,
                   session, power>>

\* another thread sets the event (sender_tab.py line 406)
PaceStop ==
    /\ pc \in {"pace_idle", "pace_wait"}
    /\ ~stop_event
    /\ stop_event' = TRUE
    /\ pace' = IF pc = "pace_wait" /\ pace.waited < The(pace.delay)
               THEN [pace EXCEPT !.signalled = TRUE] ELSE pace
    /\ UNCHANGED <<db, call, exc, found, target, danmakus, config, pc, i, ctx,
                   unsent_danmakus, summary, elapsed, delay_count, run, mon, hm,
                   session, power>>

PaceInit ==
    /\ db = {}
    /\ call = NoCall
    /\ ClassIdle
    /\ target = CHOOSE t \in Targets : t.cid = 1
    /\ danmakus = <<>>
    /\ config \in PaceConfigs
    /\ stop_event = FALSE
    /\ pc = "pace_idle"
    /\ i = 1
    /\ ctx = NewContext
    /\ unsent_danmakus = <<>>
    /\ summary = ""
    /\ elapsed = 0
    /\ delay_count = 0
    /\ run = NoRun
    /\ AuxIdle

PaceNext == PaceCall \/ PaceTick \/ PaceReturn \/ PaceStop

SpecPacing == PaceInit /\ [][PaceNext]_vars

(***************************************************************************)
(* One send run and one reconciliation thread on the same store.  The send *)
(* thread calls record_danmaku for the items the provider accepted, in     *)
(* list order (danmakus holds them with their dmids, i is the next one);   *)
(* the reconciliation thread calls verify_dmids, mark_as_lost and          *)
(* get_stats with any arguments, in any order.  Every operation opens its  *)
(* own connection and executes one statement, which SQLite runs as one     *)
(* transaction, or in which sqlite3 raises (io); mon.log lists the         *)
(* operations in the order they committed or failed.                       *)
(***************************************************************************)
\* items the send thread gets accepted
MaxAccepted == 2
\* operations the reconciliation thread performs
MaxMonOps == 2

\* accepted items: each with a dmid; the same dmid may come twice
AcceptedBatches ==
    SeqsUpTo({Danmaku(CHOOSE p \in Payloads : p.mode = 1, d) : d \in DmIds}, MaxAccepted)

\* the operation an entry of the log stands for, applied to a table
Apply(tbl, o) ==
    IF o.op = "record_danmaku"
    THEN record_danmaku(tbl, o.target, o.dm, o.visible, o.now, o.io)
    ELSE IF o.op = "verify_dmids" THEN verify_dmids(tbl, o.ids, o.io)
    ELSE IF o.op = "mark_as_lost" THEN mark_as_lost(tbl, o.cid, o.ids, o.io)
    ELSE tbl

\* the table after the operations of a log, one after the other
RECURSIVE Replay(_, _)
Replay(tbl, log) ==
    IF log = <<>> THEN tbl ELSE Replay(Apply(tbl, Head(log)), Tail(log))

Op(op) ==
    [op |-> op, thread |-> IF op = "record_danmaku" THEN "send" ELSE "monitor",
     target |-> target, dm |-> Danmaku(CHOOSE p \in Payloads : p.mode = 1, ""),
     visible |-> TRUE, now |-> 0, cid |-> 0, ids |-> {}, io |-> "ok"]

\* the send thread: _save_to_db_cb for the next accepted item
ConcRecord(is_visible_api, now, io) ==
    /\ pc = "conc"
    /\ i <= Len(danmakus)
    /\ db' = record_danmaku(db, target, danmakus[i], is_visible_api, now, io)
    /\ i' = i + 1
    /\ mon' = [mon EXCEPT !.log = Append(@, [Op("record_danmaku") EXCEPT
                     !.dm = danmakus[i], !.visible = is_visible_api, !.now = now,
                     !.io = io])]
    /\ UNCHANGED <<call, exc, found, target, danmakus, config, stop_event, pc, ctx,
                   unsent_danmakus, summary, elapsed, delay_count, run, pace, hm,
                   session, power>>

\* the reconciliation thread: verify_dmids
ConcVerify(verified_dmids, io) ==
    /\ pc = "conc"
    /\ mon.done < MaxMonOps
    /\ verified_dmids = {} => io = "ok"
    /\ db' = verify_dmids(db, verified_dmids, io)
    /\ mon' = [mon EXCEPT !.done = @ + 1,
                          !.log = Append(@, [Op("verify_dmids") EXCEPT
                                                !.ids = verified_dmids, !.io = io])]
    /\ UNCHANGED <<call, exc, found, target, danmakus, config, stop_event, pc, i, ctx,
                   unsent_danmakus, summary, elapsed, delay_count, run, pace, hm,
                   session, power>>

\* the reconciliation thread: mark_as_lost
ConcMarkLost(cid, verified_dmids, io) ==
    /\ pc = "conc"
    /\ mon.done < MaxMonOps
    /\ db' = mark_as_lost(db, cid, verified_dmids, io)
    /\ mon' = [mon EXCEPT !.done = @ + 1,
                          !.log = Append(@, [Op("mark_as_lost") EXCEPT
                                                !.cid = cid, !.ids = verified_dmids,
                                                !.io = io])]
    /\ UNCHANGED <<call, exc, found, target, danmakus, config, stop_event, pc, i, ctx,
                   unsent_danmakus, summary, elapsed, delay_count, run, pace, hm,
                   session, power>>

\* the reconciliation thread: get_stats
ConcGetStats(cid, io) ==
    /\ pc = "conc"
    /\ mon.done < MaxMonOps
    /\ mon' = [mon EXCEPT !.done = @ + 1,
                          !.stats = Some(get_stats(db, cid, io)),
                          !.log = Append(@, [Op("get_stats") EXCEPT !.cid = cid,
                                                                    !.io = io])]
    /\ UNCHANGED <<db, call, exc, found, target, danmakus, config, stop_event, pc, i, ctx,
                   unsent_danmakus, summary, elapsed, delay_count, run, pace, hm,
                   session, power>>

ConcInit ==
    /\ db \in {{}, {PriorRow(1, "p1", PENDING)}}
    /\ call = NoCall
    /\ ClassIdle
    /\ target = CHOOSE t \in Targets : t.cid = 1
    /\ danmakus \in AcceptedBatches
    /\ config = SenderConfig
    /\ stop_event = FALSE
    /\ pc = "conc"
    /\ i = 1
    /\ ctx = NewContext
    /\ unsent_danmakus = <<>>
    /\ summary = ""
    /\ elapsed = 0
    /\ delay_count = 0
    /\ run = [NoRun EXCEPT !.db0 = db]
    /\ AuxIdle

ConcNext ==
    \/ \E now \in Times, io \in SqlOutcomes : ConcRecord(TRUE, now, io)
    \/ \E ids \in SUBSET (DmIds \cup {"p1"}), io \in SqlOutcomes : ConcVerify(ids, io)
    \/ \E c \in Cids, ids \in SUBSET (DmIds \cup {"p1"}), io \in SqlOutcomes :
          ConcMarkLost(c, ids, io)
    \/ \E c \in Cids, io \in SqlOutcomes : ConcGetStats(c, io)

SpecConc == ConcInit /\ [][ConcNext]_vars

(***************************************************************************)
(* The send run with skip_sent asked for in the settings, beside a thread  *)
(* that reconciles the same store: while the run goes, verify_dmids and    *)
(* mark_as_lost change the status of rows.                                 *)
(***************************************************************************)
\* the dmids the reconciliation thread may name
SnapIds == {"p1", "n1"}

\* the reconciliation thread calls verify_dmids during the run
SnapVerify(verified_dmids, io) ==
    /\ pc \in Running
    /\ mon.done < MaxMonOps
    /\ verified_dmids = {} => io = "ok"
    /\ db' = verify_dmids(db, verified_dmids, io)
    /\ mon' = [mon EXCEPT !.done = @ + 1]
    /\ UNCHANGED <<call, exc, found, target, danmakus, config, stop_event, pc, i, ctx,
                   unsent_danmakus, summary, elapsed, delay_count, run, pace, hm,
                   session, power>>

\* the reconciliation thread calls mark_as_lost during the run
SnapMarkLost(cid, verified_dmids, io) ==
    /\ pc \in Running
    /\ mon.done < MaxMonOps
    /\ db' = mark_as_lost(db, cid, verified_dmids, io)
    /\ mon' = [mon EXCEPT !.done = @ + 1]
    /\ UNCHANGED <<call, exc, found, target, danmakus, config, stop_event, pc, i, ctx,
                   unsent_danmakus, summary, elapsed, delay_count, run, pace, hm,
                   session, power>>

SnapInit ==
    /\ SendInit
    /\ SkipAsked
    /\ config.stop_after_count = 0
    /\ config.stop_after_time = 0
    /\ db \in {{PriorRow(1, "p1", PENDING)},
                {PriorRow(1, "p1", PENDING), PriorRow(1, "p2", PENDING)},
                {PriorRow(1, "p1", PENDING), PriorRow(1, "p2", LOST)}}

SnapNext ==
    \/ SendNext
    \/ \E ids \in SUBSET SnapIds, io \in SqlOutcomes : SnapVerify(ids, io)
    \/ \E ids \in SUBSET SnapIds, io \in SqlOutcomes : SnapMarkLost(target.cid, ids, io)

SpecSnap == SnapInit /\ [][SnapNext]_vars

(***************************************************************************)
(* The polling monitor of core/bili_monitor.py: BiliDanmakuMonitor.run     *)
(* compares the local danmakus it was given, or reads from its file, with  *)
(* the live listing.  A local danmaku matches an online one of the same    *)
(* text whose time is within time_tolerance and whose dmid, when it has    *)
(* one, was not used by an earlier match.  The items of a listing are what *)
(* DanmakuParser.parse_xml_content of core/bili_danmaku_utils.py returns,  *)
(* dicts; the local ones are dicts from the same parser or Danmaku objects *)
(* of the caller.  mon.at is where the run stands, mon.waited the seconds  *)
(* of the tick wait in progress, mon.matches the matches made so far, in   *)
(* order: the local index and the dmid of the online danmaku;              *)
(* mon.exception the exception that left run.                              *)
(***************************************************************************)
\* local danmakus of one monitor
MaxLocal == 2

\* danmakus of one live listing
MaxOnline == 2

\* polls of one monitor run
MaxPolls == 2

\* self.interval, in seconds
MonInterval == 2

\* time_tolerance, in milliseconds (default of __init__)
time_tolerance == 500

\* a local danmaku: a dict of the parser or a Danmaku object
LocalDanmakus == [type : {"dict", "Danmaku"}, msg : {"a", "b"}, progress : {1000, 2000}]

\* parse_xml_content lines 155-164: a danmaku of the listing is a dict with
\* the keys progress, msg and id
OnlineDanmakus == [type : {"dict"}, msg : {"a", "b"}, progress : {1000, 1400},
                   id : {"d1", "d2"}]

\* what _fetch_online_danmakus can return: [] after an error or for an empty
\* listing, or the parsed listing
OnlineListings == SeqsUpTo(OnlineDanmakus, MaxOnline)

\* what parse_xml_file can do for the monitor's file: the parsed danmakus,
\* [] for a file that is missing, unreadable or without danmakus, or an
\* exception that leaves it
FileOutcomes ==
    {[kind |-> "raises", danmakus |-> <<>>]}
    \cup {[kind |-> "parsed", danmakus |-> l] :
             l \in SeqsUpTo({d \in LocalDanmakus : d.type = "dict" /\ d.progress = 1000},
                            MaxLocal)}

\* dm.progress, dm.msg, dm.dmid: a Danmaku object has the attributes, on a
\* dict the read raises AttributeError
HasAttrs(dm) == dm.type = "Danmaku"

Abs(n) == IF n < 0 THEN -n ELSE n

\* lines 135-137: same text, time within the tolerance, dmid empty or unused
Matches(local_dm, online_dm, used) ==
    /\ local_dm.msg = online_dm.msg
    /\ Abs(local_dm.progress - online_dm.progress) <= time_tolerance
    /\ (online_dm.dmid = "" \/ online_dm.dmid \notin used)

\* lines 131-144: the first online danmaku from position k that matches, 0
\* when none does, -1 when reading an online danmaku raises (lines 132-133)
RECURSIVE FirstMatch(_, _, _, _)
FirstMatch(local_dm, online, k, used) ==
    IF k > Len(online) THEN 0
    ELSE IF ~HasAttrs(online[k]) THEN -1
    ELSE IF Matches(local_dm, online[k], used) THEN k
    ELSE FirstMatch(local_dm, online, k + 1, used)

\* lines 125-144: the local danmakus from index idx on, the matched ones
\* skipped, each other one read (line 129) and matched with its first
\* matching online danmaku; an AttributeError ends the round
RECURSIVE MatchRound(_, _, _, _)
MatchRound(local, online, idx, st) ==
    IF idx > Len(local) THEN st
    ELSE IF idx \in st.matched_local_indices THEN MatchRound(local, online, idx + 1, st)
    ELSE IF ~HasAttrs(local[idx]) THEN [st EXCEPT !.exception = "AttributeError"]
    ELSE LET k == FirstMatch(local[idx], online, 1, st.unique_matched_online_ids)
         IN  IF k = -1 THEN [st EXCEPT !.exception = "AttributeError"]
             ELSE IF k = 0 THEN MatchRound(local, online, idx + 1, st)
             ELSE MatchRound(local, online, idx + 1,
                    [st EXCEPT
                       !.matched_local_indices = @ \cup {idx},
                       !.unique_matched_online_ids =
                           IF online[k].dmid # "" THEN @ \cup {online[k].dmid} ELSE @,
                       !.matches = Append(@, [local |-> idx, dmid |-> online[k].dmid])])

\* line 155: every local danmaku is matched
AllMatched(matched, total) == Cardinality(matched) = total

pollFrame ==
    <<db, call, exc, found, target, danmakus, config, pc, i, ctx,
      unsent_danmakus, summary, elapsed, delay_count, run, pace, hm, session, power>>

\* _read_local_danmakus (lines 43-75): the danmakus given to __init__ are
\* used as they are; with none and a file path the file is parsed, and an
\* exception of the parser empties the list; the result is what
\* loaded_danmakus holds afterwards and whether the read counts as done
_read_local_danmakus(m, file) ==
    IF Len(m.loaded_danmakus) > 0 THEN [loaded_danmakus |-> m.loaded_danmakus, ok |-> TRUE]
    ELSE IF m.source_danmaku_filepath # ""
    THEN IF file.kind = "raises" THEN [loaded_danmakus |-> <<>>, ok |-> FALSE]
         ELSE [loaded_danmakus |-> file.danmakus, ok |-> TRUE]
    ELSE [loaded_danmakus |-> <<>>, ok |-> TRUE]

\* the test of line 111 never true
NothingToMonitorNever(total) == FALSE

\* line 111: self.total_danmakus == 0
NothingToMonitor(total) == total = 0

\* lines 102-114: the local danmakus are read and the callback gets
\* (0, total); with none the run ends at once, after a callback of (0, 0)
PollStart(file) ==
    /\ pc = "poll"
    /\ mon.at = "start"
    /\ (Len(mon.loaded_danmakus) > 0 \/ mon.source_danmaku_filepath = "")
          => file = [kind |-> "parsed", danmakus |-> <<>>]
    /\ LET read == _read_local_danmakus(mon, file)
           total == Len(read.loaded_danmakus)
       IN  mon' = [mon EXCEPT
                     !.loaded_danmakus = read.loaded_danmakus,
                     !.at = IF NothingToMonitor(total) THEN "ended" ELSE "loop",
                     !.report = Some([matched |-> 0, total |-> total])]
    /\ UNCHANGED <<stop_event, pollFrame>>

\* line 116: while not stop_event.is_set()
PollLoopHead ==
    /\ pc = "poll"
    /\ mon.at = "loop"
    /\ stop_event \/ mon.ticks < MaxPolls
    /\ mon' = [mon EXCEPT !.at = IF stop_event THEN "ended" ELSE "fetch"]
    /\ stop_event' = AfterPoll(stop_event)
    /\ UNCHANGED pollFrame

\* lines 117-160, the monitor after the fetch gave online: with nothing
\* fetched the tick wait, else the matching round, the progress callback,
\* and the end when all are matched.  An AttributeError of the matching
\* round leaves run: no callback, no wait.
AfterFetch(m, online) ==
    IF Len(online) = 0
    THEN [m EXCEPT !.at = "wait", !.tick = "empty", !.waited = 0]
    ELSE LET st == MatchRound(m.loaded_danmakus, online, 1, m)
         IN  IF st.exception # ""
             THEN [st EXCEPT !.tick = "listing", !.at = "raised"]
             ELSE [st EXCEPT
                     !.tick = "listing",
                     !.waited = 0,
                     !.report = Some([matched |-> Cardinality(st.matched_local_indices),
                                      total |-> Len(m.loaded_danmakus)]),
                     !.at = IF AllMatched(st.matched_local_indices,
                                          Len(m.loaded_danmakus))
                            THEN "ended" ELSE "wait"]

\* lines 117-160: one poll, the listing fetched being online
PollFetch(online) ==
    /\ pc = "poll"
    /\ mon.at = "fetch"
    /\ mon' = AfterFetch(mon, online)
    /\ UNCHANGED <<stop_event, pollFrame>>

\* stop_event.wait(self.interval): a second of the wait goes by
PollWaitTick ==
    /\ pc = "poll"
    /\ mon.at = "wait"
    /\ ~EventWaitWakes(stop_event)
    /\ mon.waited < MonInterval
    /\ mon' = [mon EXCEPT !.waited = @ + 1]
    /\ UNCHANGED <<stop_event, pollFrame>>

\* stop_event.wait(self.interval) returns: the interval is over or the event
\* is set
PollWaitReturn ==
    /\ pc = "poll"
    /\ mon.at = "wait"
    /\ EventWaitWakes(stop_event) \/ mon.waited = MonInterval
    /\ mon' = [mon EXCEPT !.at = "loop", !.ticks = @ + 1]
    /\ stop_event' = AfterPoll(stop_event)
    /\ UNCHANGED pollFrame

\* the user stops the monitor (monitor_tab.py line 248)
PollUserStop ==
    /\ pc = "poll"
    /\ mon.at \notin {"ended", "raised"}
    /\ ~stop_event
    /\ stop_event' = TRUE
    /\ UNCHANGED <<mon, pollFrame>>

PollInit ==
    /\ db = {}
    /\ call = NoCall
    /\ ClassIdle
    /\ target = CHOOSE t \in Targets : t.cid = 1
    /\ danmakus = <<>>
    /\ config = SenderConfig
    /\ stop_event = FALSE
    /\ pc = "poll"
    /\ i = 1
    /\ ctx = NewContext
    /\ unsent_danmakus = <<>>
    /\ summary = ""
    /\ elapsed = 0
    /\ delay_count = 0
    /\ run = NoRun
    /\ pace = NoPace
    /\ \E local \in SeqsUpTo(LocalDanmakus, MaxLocal), path \in {"", "local.xml"} :
           mon = [NoMon EXCEPT !.at = "start", !.loaded_danmakus = local,
                               !.source_danmaku_filepath = path]
    /\ hm = NoHm
    /\ session = NoSession
    /\ power = NoPower

PollNext ==
    \/ \E file \in FileOutcomes : PollStart(file)
    \/ PollLoopHead
    \/ \E online \in OnlineListings : PollFetch(online)
    \/ PollWaitTick
    \/ PollWaitReturn
    \/ PollUserStop

SpecPoll == PollInit /\ [][PollNext]_vars

(***************************************************************************)
(* The monitor beside the store.  Its two callers construct                *)
(* BiliDanmakuMonitor (MonitorTaskWorker.run of core/workers.py and of     *)
(* ui/monitor_tab.py) and call run; run polls the live listing as above    *)
(* and never calls the store.  Meanwhile the send thread records accepted  *)
(* items (a write may fail with a storage error) and a caller of the store *)
(* may call mark_as_lost.  mon.done counts the calls of mark_as_lost.      *)
(***************************************************************************)
\* the parameters of BiliDanmakuMonitor.__init__ (lines 17-19), and those
\* without a default
MonitorParams ==
    {"api_client", "cid", "source_danmaku_filepath", "loaded_danmakus", "interval",
     "time_tolerance"}

MonitorRequired == {"api_client", "cid"}

\* the keyword arguments of the two callers: core/workers.py lines 152-156,
\* ui/monitor_tab.py lines 40-46
MonitorCallers ==
    {{"api_client", "target", "interval"},
     {"api_client", "cid", "loaded_danmakus", "interval", "time_tolerance"}}

\* the local danmakus the monitor tab hands over: Danmaku objects
MonitorLocals ==
    SeqsUpTo({d \in LocalDanmakus : d.type = "Danmaku" /\ d.progress = 1000}, MaxLocal)

\* what get_danmaku_list_xml and the parser can do in a fetch: an error of
\* the API client, content that cannot be parsed, or a listing
FetchOutcomes ==
    {[kind |-> "api_error", danmakus |-> <<>>], [kind |-> "parse_error", danmakus |-> <<>>]}
    \cup {[kind |-> "listing", danmakus |-> l] : l \in OnlineListings}

\* _fetch_online_danmakus (lines 77-87): the listing, or [] after either
\* exception
_fetch_online_danmakus(outcome) ==
    IF outcome.kind = "listing" THEN outcome.danmakus ELSE <<>>

\* BiliDanmakuMonitor(**kwargs): TypeError for a keyword that is no
\* parameter and for a missing cid, which the worker's except Exception
\* catches and reports; else the monitor with the local danmakus given
MonConstruct(kwargs, loaded) ==
    /\ pc = "poll"
    /\ mon.at = "new"
    /\ "loaded_danmakus" \notin kwargs => loaded = <<>>
    /\ mon' = IF kwargs \subseteq MonitorParams /\ MonitorRequired \subseteq kwargs
              THEN [mon EXCEPT !.at = "start", !.loaded_danmakus = loaded]
              ELSE [mon EXCEPT !.at = "raised", !.exception = "TypeError"]
    /\ UNCHANGED <<stop_event, pollFrame>>

\* a poll that marks every PENDING row of the part LOST when the fetch
\* gave nothing
MonFetchMarkingLost(outcome) ==
    /\ pc = "poll"
    /\ mon.at = "fetch"
    /\ mon' = AfterFetch(mon, _fetch_online_danmakus(outcome))
    /\ db' = IF _fetch_online_danmakus(outcome) = <<>>
             THEN mark_as_lost(db, target.cid, {}, "ok") ELSE db
    /\ UNCHANGED <<call, exc, found, target, danmakus, config, stop_event, pc, i, ctx,
                   unsent_danmakus, summary, elapsed, delay_count, run, pace, hm,
                   session, power>>

\* lines 117-160: one poll of run, the fetch doing outcome
MonFetch(outcome) == PollFetch(_fetch_online_danmakus(outcome))

\* the send thread: _save_to_db_cb for its next accepted item, with the
\* visibility the provider answered and what sqlite3 does in the INSERT
MonSendRecord(is_visible, now, io) ==
    /\ pc = "poll"
    /\ i <= Len(danmakus)
    /\ db' = record_danmaku(db, target, danmakus[i], is_visible, now, io)
    /\ i' = i + 1
    /\ UNCHANGED <<call, exc, found, target, danmakus, config, stop_event, pc, ctx,
                   unsent_danmakus, summary, elapsed, delay_count, run, pace, mon, hm,
                   session, power>>

\* a caller of the store calls mark_as_lost; a call in which sqlite3 raises
\* leaves the same state whatever its arguments, so one stands for all
MonCallerMarkLost(cid, verified_dmids, io) ==
    /\ pc = "poll"
    /\ mon.done < MaxMonOps
    /\ io # "ok" => cid = target.cid /\ verified_dmids = {}
    /\ db' = mark_as_lost(db, cid, verified_dmids, io)
    /\ mon' = [mon EXCEPT !.done = @ + 1]
    /\ UNCHANGED <<call, exc, found, target, danmakus, config, stop_event, pc, i, ctx,
                   unsent_danmakus, summary, elapsed, delay_count, run, pace, hm,
                   session, power>>

MonInit ==
    /\ db \in {{}, {PriorRow(1, "p1", PENDING)},
               {PriorRow(1, "p1", PENDING), PriorRow(2, "p2", PENDING)}}
    /\ call = NoCall
    /\ ClassIdle
    /\ target = CHOOSE t \in Targets : t.cid = 1
    /\ danmakus \in AcceptedBatches
    /\ config = SenderConfig
    /\ stop_event = FALSE
    /\ pc = "poll"
    /\ i = 1
    /\ ctx = NewContext
    /\ unsent_danmakus = <<>>
    /\ summary = ""
    /\ elapsed = 0
    /\ delay_count = 0
    /\ run = [NoRun EXCEPT !.db0 = db]
    /\ pace = NoPace
    /\ mon = [NoMon EXCEPT !.at = "new"]
    /\ hm = NoHm
    /\ session = NoSession
    /\ power = NoPower

MonNext ==
    \/ \E kwargs \in MonitorCallers, loaded \in MonitorLocals : MonConstruct(kwargs, loaded)
    \/ \E file \in FileOutcomes : PollStart(file)
    \/ PollLoopHead
    \/ \E outcome \in FetchOutcomes : MonFetch(outcome)
    \/ PollWaitTick
    \/ PollWaitReturn
    \/ PollUserStop
    \/ \E v \in BOOLEAN, io \in SqlOutcomes :
          (io # "ok" => v) /\ MonSendRecord(v, 0, io)
    \/ \E c \in Cids, ids \in SUBSET (DmIds \cup {"p1"}), io \in SqlOutcomes :
          MonCallerMarkLost(c, ids, io)

SpecMonitor == MonInit /\ [][MonNext]_vars

(***************************************************************************)
(* The users of the stop event, each on its own event: a send run, the     *)
(* calls of the pacing controller, a monitor run.                          *)
(***************************************************************************)
CancelInit ==
    \/ SendInit /\ db = {}
    \/ PaceInit
    \/ PollInit

CancelNext == SendNext \/ PaceNext \/ PollNext

SpecCancel == CancelInit /\ [][CancelNext]_vars

(***************************************************************************)
(* Constructing the store: several threads evaluate HistoryManager() at    *)
(* the same time.  A thread runs __new__ (lines 36-41) and then, on the    *)
(* object __new__ returned, __init__ (lines 43-57); a step is one read or  *)
(* write of a class attribute or one lock operation.  Objects are numbered *)
(* in the order they are created; hm.db_path is the set of objects whose   *)
(* db_path is set; hm.init_db_runs counts the runs of _init_db and          *)
(* hm.init_db_done those that created the table; a thread's exception is   *)
(* the exception that left its constructor, if one did.                    *)
(***************************************************************************)
\* threads that construct the store at the same time
MaxThreads == 3

Threads == 1..MaxThreads

NewThread ==
    [pc |-> "new_check", self |-> None, new_hit |-> FALSE, init_hit |-> FALSE,
     exception |-> ""]

\* what _init_db can do: create the table, or have sqlite3 raise (the file
\* not openable, the disk full), which it logs and raises on as RuntimeError
InitDbOutcomes == {"ok", "error"}

\* what data_dir.mkdir can do: the directory is there afterwards, or OSError
MkdirOutcomes == {"ok", "error"}

\* hm after thread t moved to pc p
Goto(t, p) == [hm EXCEPT !.th[t].pc = p]

\* the test of line 39 left out
NewSecondCheckSkipped(instance) == TRUE

\* line 39: if not cls._instance, evaluated holding the lock
NewSecondCheck(instance) == instance = None

\* line 37: if not cls._instance
CtorNewCheck(t) ==
    /\ pc = "ctor"
    /\ hm.th[t].pc = "new_check"
    /\ hm' = Goto(t, IF hm._instance = None THEN "new_lock" ELSE "new_return")
    /\ UNCHANGED <<db, call, exc, found, target, danmakus, config, stop_event, pc, i, ctx,
                   unsent_danmakus, summary, elapsed, delay_count, run, pace, mon,
                   session, power>>

\* line 38: with cls._lock (acquire)
CtorNewLock(t) ==
    /\ pc = "ctor"
    /\ hm.th[t].pc = "new_lock"
    /\ hm._lock = None
    /\ hm' = [Goto(t, "new_locked") EXCEPT !._lock = Some(t)]
    /\ UNCHANGED <<db, call, exc, found, target, danmakus, config, stop_event, pc, i, ctx,
                   unsent_danmakus, summary, elapsed, delay_count, run, pace, mon,
                   session, power>>

\* lines 39-40: the second test, super().__new__(cls)
CtorNewCreate(t) ==
    /\ pc = "ctor"
    /\ hm.th[t].pc = "new_locked"
    /\ hm' = IF NewSecondCheck(hm._instance)
             THEN [Goto(t, "new_unlock") EXCEPT !._instance = Some(hm.objects + 1),
                                                !.objects = @ + 1]
             ELSE [Goto(t, "new_unlock") EXCEPT !.th[t].new_hit = TRUE]
    /\ UNCHANGED <<db, call, exc, found, target, danmakus, config, stop_event, pc, i, ctx,
                   unsent_danmakus, summary, elapsed, delay_count, run, pace, mon,
                   session, power>>

\* line 38: with cls._lock (release)
CtorNewUnlock(t) ==
    /\ pc = "ctor"
    /\ hm.th[t].pc = "new_unlock"
    /\ hm' = [Goto(t, "new_return") EXCEPT !._lock = None]
    /\ UNCHANGED <<db, call, exc, found, target, danmakus, config, stop_event, pc, i, ctx,
                   unsent_danmakus, summary, elapsed, delay_count, run, pace, mon,
                   session, power>>

\* line 41: return cls._instance; __init__ is called on it
CtorNewReturn(t) ==
    /\ pc = "ctor"
    /\ hm.th[t].pc = "new_return"
    /\ hm' = [Goto(t, "init_check") EXCEPT !.th[t].self = hm._instance]
    /\ UNCHANGED <<db, call, exc, found, target, danmakus, config, stop_event, pc, i, ctx,
                   unsent_danmakus, summary, elapsed, delay_count, run, pace, mon,
                   session, power>>

\* lines 44-45: if self._initialized: return
CtorInitCheck(t) ==
    /\ pc = "ctor"
    /\ hm.th[t].pc = "init_check"
    /\ hm' = Goto(t, IF hm._initialized THEN "done" ELSE "init_lock")
    /\ UNCHANGED <<db, call, exc, found, target, danmakus, config, stop_event, pc, i, ctx,
                   unsent_danmakus, summary, elapsed, delay_count, run, pace, mon,
                   session, power>>

\* line 47: with self._lock (acquire)
CtorInitLock(t) ==
    /\ pc = "ctor"
    /\ hm.th[t].pc = "init_lock"
    /\ hm._lock = None
    /\ hm' = [Goto(t, "init_locked") EXCEPT !._lock = Some(t)]
    /\ UNCHANGED <<db, call, exc, found, target, danmakus, config, stop_event, pc, i, ctx,
                   unsent_danmakus, summary, elapsed, delay_count, run, pace, mon,
                   session, power>>

\* lines 48-49: if self._initialized: return (leaving the with block)
CtorInitSecondCheck(t) ==
    /\ pc = "ctor"
    /\ hm.th[t].pc = "init_locked"
    /\ hm' = IF hm._initialized
             THEN [Goto(t, "done") EXCEPT !._lock = None, !.th[t].init_hit = TRUE]
             ELSE Goto(t, "init_path")
    /\ UNCHANGED <<db, call, exc, found, target, danmakus, config, stop_event, pc, i, ctx,
                   unsent_danmakus, summary, elapsed, delay_count, run, pace, mon,
                   session, power>>

\* lines 51-53: data_dir.mkdir(parents=True, exist_ok=True), then
\* self.db_path = data_dir / "history.db".  An OSError of mkdir (a file in
\* the way, no permission) leaves __init__ through the with block, which
\* releases the lock: db_path is not set, _initialized stays False, the
\* caller gets the exception.
CtorInitPath(t, io) ==
    /\ pc = "ctor"
    /\ hm.th[t].pc = "init_path"
    /\ hm' = IF io = "ok"
             THEN [Goto(t, "init_db") EXCEPT !.db_path = @ \cup hm.th[t].self]
             ELSE [Goto(t, "done") EXCEPT !._lock = None,
                                          !.th[t].exception = "OSError"]
    /\ UNCHANGED <<db, call, exc, found, target, danmakus, config, stop_event, pc, i, ctx,
                   unsent_danmakus, summary, elapsed, delay_count, run, pace, mon,
                   session, power>>

\* line 54: self._init_db().  Its RuntimeError (lines 88-90) leaves __init__
\* through the with block, which releases the lock: _initialized stays
\* False, _instance and db_path stay set, the caller gets the exception.
CtorInitDb(t, io) ==
    /\ pc = "ctor"
    /\ hm.th[t].pc = "init_db"
    /\ hm' = IF io = "ok"
             THEN [Goto(t, "init_flag") EXCEPT !.init_db_runs = @ + 1,
                                               !.init_db_done = @ + 1]
             ELSE [Goto(t, "done") EXCEPT !.init_db_runs = @ + 1, !._lock = None,
                                          !.th[t].exception = "RuntimeError"]
    /\ UNCHANGED <<db, call, exc, found, target, danmakus, config, stop_event, pc, i, ctx,
                   unsent_danmakus, summary, elapsed, delay_count, run, pace, mon,
                   session, power>>

\* line 56: HistoryManager._initialized = True
CtorInitFlag(t) ==
    /\ pc = "ctor"
    /\ hm.th[t].pc = "init_flag"
    /\ hm' = [Goto(t, "init_unlock") EXCEPT !._initialized = TRUE]
    /\ UNCHANGED <<db, call, exc, found, target, danmakus, config, stop_event, pc, i, ctx,
                   unsent_danmakus, summary, elapsed, delay_count, run, pace, mon,
                   session, power>>

\* line 47: with self._lock (release); __init__ returns
CtorInitUnlock(t) ==
    /\ pc = "ctor"
    /\ hm.th[t].pc = "init_unlock"
    /\ hm' = [Goto(t, "done") EXCEPT !._lock = None]
    /\ UNCHANGED <<db, call, exc, found, target, danmakus, config, stop_event, pc, i, ctx,
                   unsent_danmakus, summary, elapsed, delay_count, run, pace, mon,
                   session, power>>

CtorInit ==
    /\ db = {}
    /\ call = NoCall
    /\ ClassIdle
    /\ target = CHOOSE t \in Targets : t.cid = 1
    /\ danmakus = <<>>
    /\ config = SenderConfig
    /\ stop_event = FALSE
    /\ pc = "ctor"
    /\ i = 1
    /\ ctx = NewContext
    /\ unsent_danmakus = <<>>
    /\ summary = ""
    /\ elapsed = 0
    /\ delay_count = 0
    /\ run = NoRun
    /\ pace = NoPace
    /\ mon = NoMon
    /\ hm = [NoHm EXCEPT !.th = [t \in Threads |-> NewThread]]
    /\ session = NoSession
    /\ power = NoPower

CtorNext ==
    \E t \in Threads :
        \/ CtorNewCheck(t)
        \/ CtorNewLock(t)
        \/ CtorNewCreate(t)
        \/ CtorNewUnlock(t)
        \/ CtorNewReturn(t)
        \/ CtorInitCheck(t)
        \/ CtorInitLock(t)
        \/ CtorInitSecondCheck(t)
        \/ \E io \in MkdirOutcomes : CtorInitPath(t, io)
        \/ \E io \in InitDbOutcomes : CtorInitDb(t, io)
        \/ CtorInitFlag(t)
        \/ CtorInitUnlock(t)

SpecCtor == CtorInit /\ [][CtorNext]_vars

(***************************************************************************)
(* Reading the run's records.                                              *)
(***************************************************************************)
\* indices of the items recorded as unsent with one of the reasons
UnsentWith(records, reasons) ==
    {records[j].idx : j \in {x \in DOMAIN records : records[x].reason \in reasons}}

LastSubmitted == IF run.submitted = <<>> THEN 0 ELSE run.submitted[Len(run.submitted)]

EndedNotStopped ==
    /\ pc \notin Running
    /\ run.exit \notin {"CANCELLED", "FATAL_STOPPED", "AUTO_STOPPED"}
    /\ run.last.outcome # "raised"

Min(a, b) == IF a < b THEN a ELSE b

Occurrences(p) == {j \in 1..Total : _get_fingerprint(danmakus[j]) = _get_fingerprint(p)}

LiveMatches(p) ==
    Cardinality({r \in run.db0 :
        /\ r.cid = target.cid
        /\ <<r.msg, r.progress, r.mode, r.fontsize, r.color>> = _get_fingerprint(p)
        /\ r.status # LOST})

FirstOf(S, m) == {j \in S : Cardinality({x \in S : x < j}) < m}

C4_SkipDuplicate ==
    (SkipAsked /\ EndedNotStopped) =>
        \A p \in Payloads :
            /\ run.skipped \cap Occurrences(p)
                   = FirstOf(Occurrences(p), Min(Cardinality(Occurrences(p)), LiveMatches(p)))
            /\ Occurrences(p) \ run.skipped
                   = {run.submitted[x] : x \in DOMAIN run.submitted} \cap Occurrences(p)

C7_NeverRaises == pc # "raised"

(***************************************************************************)
(* C8  Network-layer failures are fatal: after a submission failed with a  *)
(* timeout, a connection error, a malformed body or a transport error,     *)
(* the run has stopped as for a fatal error, with that item and every      *)
(* later one in the unsent list.                                           *)
(***************************************************************************)
C8_NetworkFailureStopsRun ==
    run.last.kind = "raise" =>
        /\ pc \in {"summary", "done"}
        /\ ctx.fatal_error_occurred
        /\ run.last.idx..Total
               \subseteq UnsentWith(ctx.unsent_records, {"fatal_error", "after_fatal"})

(***************************************************************************)
(* C9  Unknown codes are fatal: a failed submission whose code is not in   *)
(* the enumeration is classified fatal, whether the code came in the       *)
(* provider's answer or on an exception; a code of the enumeration is      *)
(* classified by its is_fatal flag; only code 0 is a success.              *)
(***************************************************************************)
C9_UnknownCodesFatal ==
    (pc \in {"classified", "raised"} /\ run.last.code # None) =>
        LET code == The(run.last.code)
        IN  /\ code \notin EnumCodes => run.last.outcome = "fatal"
            /\ (code \in EnumCodes /\ code # SUCCESS) =>
                   run.last.outcome = IF code \in FatalCodes THEN "fatal" ELSE "retryable"
            /\ run.last.outcome = "success" => code = SUCCESS

(***************************************************************************)
(* C10  The stop reason of the summary is the way the run ended: a run     *)
(* over a non-empty batch that ended by cancellation, by a fatal error, by *)
(* auto-stop or by reaching the end of the list reports exactly that.      *)
(***************************************************************************)
C10_SummaryIsTerminalState ==
    (pc = "done" /\ Total > 0) => summary = run.exit

(***************************************************************************)
(* C11  Ordering within a run: submissions start in strictly increasing    *)
(* list order; a submission starts only when the one before it has         *)
(* returned and its result callback has been called (so no two overlap);   *)
(* each callback directly follows the return of its own item's submission; *)
(* a submission that raises is the last event of the run.                  *)
(***************************************************************************)
EventsOf(log, e) == {x \in DOMAIN log : log[x].e = e}

OrderedLog(log) ==
    /\ \A x \in EventsOf(log, "submit") :
          /\ x = 1 \/ log[x - 1].e = "callback"
          /\ \A y \in EventsOf(log, "submit") : y < x => log[y].idx < log[x].idx
    /\ \A x \in EventsOf(log, "return") \cup EventsOf(log, "raise") :
          x > 1 /\ log[x - 1] = Event("submit", log[x].idx)
    /\ \A x \in EventsOf(log, "callback") :
          x > 1 /\ log[x - 1] = Event("return", log[x].idx)
    /\ \A x \in EventsOf(log, "raise") : x = Len(log)

Appended(old, new) == SubSeq(new, Len(old) + 1, Len(new))

ManualStopRecords(from, to) ==
    [x \in 1..(to - from + 1) |-> [idx |-> from + x - 1, reason |-> "manual_stop"]]

C14_CancellationAccounting ==
    [][/\ (pc = "loop" /\ stop_event /\ pc' # "loop") =>
              /\ pc' = "summary"
              /\ ctx'.unsent_records = ctx.unsent_records \o ManualStopRecords(i, Total)
              /\ run'.submitted = run.submitted /\ run'.events = run.events
              /\ i \notin {run.submitted[x] : x \in DOMAIN run.submitted}
       /\ (pc \in {"wait", "sleeping"} /\ pc' = "summary") =>
              /\ stop_event
              /\ ctx'.unsent_records
                     = ctx.unsent_records \o ManualStopRecords(i + 1, Total)
              /\ run'.submitted = run.submitted /\ run'.events = run.events
              /\ LastSubmitted = i
       /\ (pc \in {"wait", "sleeping"} /\ stop_event /\ pc' # pc) => pc' = "summary"
       /\ run.exit = "CANCELLED" =>
              /\ pc \in {"summary", "done"} /\ pc' \in {"summary", "done"}
              /\ run'.submitted = run.submitted
              /\ ctx' = ctx
              /\ unsent_danmakus' \in {unsent_danmakus, ctx.unsent_records}]_vars

\* a run cancelled at the loop head of its first item, which the code
\* reaches with the config that from_dict builds
C14_Witness ==
    /\ pc = "done"
    /\ run.exit = "CANCELLED"
    /\ ~hasattr(config, "skip_sent")
    /\ i = 1
    /\ Total = 3
    /\ run.submitted = <<>>
    /\ unsent_danmakus = ManualStopRecords(1, 3)

(***************************************************************************)
(* C15  Pacing bounds, as claimed: every call of wait_and_check_stop       *)
(* increments the counter and draws a delay, from [rest_min, rest_max]     *)
(* when burst_size > 1 and the new counter is a multiple of burst_size,    *)
(* from [normal_min, normal_max] otherwise.                                *)
(***************************************************************************)
PacedCall ==
    /\ delay_count' = delay_count + 1
    /\ pace'.delay # None
    /\ IF config.burst_size > 1 /\ delay_count' % config.burst_size = 0
       THEN /\ pace'.is_long_rest
            /\ config.rest_min <= The(pace'.delay)
            /\ The(pace'.delay) <= config.rest_max
       ELSE /\ ~pace'.is_long_rest
            /\ config.normal_min <= The(pace'.delay)
            /\ The(pace'.delay) <= config.normal_max

C15_EveryCallPaces == [][pace'.calls # pace.calls => PacedCall]_vars

(***************************************************************************)
(* C15 amended  Pacing bounds: every call of wait_and_check_stop that      *)
(* finds the stop event clear increments the counter and draws its delay   *)
(* from [rest_min, rest_max] when burst_size > 1 and the new counter is a  *)
(* multiple of burst_size, from [normal_min, normal_max] otherwise; a call *)
(* that finds the event set returns True at once, leaves the counter as it *)
(* was and draws no delay.                                                 *)
(***************************************************************************)
C15_PacingBounds ==
    [][pace'.calls # pace.calls =>
           IF stop_event
           THEN /\ delay_count' = delay_count
                /\ pace'.delay = None
                /\ pace'.returned = Some(TRUE)
           ELSE PacedCall]_vars

C15_Witness ==
    /\ pc = "pace_wait"
    /\ config.burst_size = 2
    /\ delay_count = 4
    /\ pace.is_long_rest
    /\ pace.delay = Some(4)

(***************************************************************************)
(* C16  Cancellation during the pacing wait: a call of wait_and_check_stop *)
(* returns True exactly when the stop event was set before the call or     *)
(* while it waited, and then it has waited less than the delay it drew (or *)
(* drew none); it returns False exactly when the event was not set during  *)
(* the wait, and then it has waited the whole delay.  While the call waits *)
(* with the event set, no more time is waited.                             *)
(***************************************************************************)
C16_CancelDuringWait ==
    [][/\ (pace'.kind = "pacing" /\ pace'.returned # None) =>
              IF pace'.signalled
              THEN /\ pace'.returned = Some(TRUE)
                   /\ pace'.delay # None => pace'.waited < The(pace'.delay)
              ELSE /\ pace'.returned = Some(FALSE)
                   /\ pace'.waited = The(pace'.delay)
       /\ (pc = "pace_wait" /\ pace.signalled) => pace'.waited = pace.waited]_vars

C16_Witness ==
    /\ pc = "pace_idle"
    /\ pace.returned = Some(TRUE)
    /\ pace.delay = Some(2)
    /\ pace.waited = 1
    /\ delay_count = 2

(***************************************************************************)
(* C17  Every blocking wait of a run ends early when the stop event is     *)
(* set: once the event is set, neither the pacing wait nor the cooldown    *)
(* after a FREQ_LIMIT answer waits any longer (no second of the cooldown   *)
(* and no minute of the clock passes in it).                               *)
(***************************************************************************)
C17_WaitsEndWhenSignalled ==
    [][(pc \in {"sleeping", "cooldown"} /\ stop_event) =>
           pace'.waited = pace.waited /\ elapsed' = elapsed]_vars

(***************************************************************************)
(* C18  Orchestrator/Monitor interleaving: however the record_danmaku      *)
(* calls of a send run interleave with the verify_dmids, mark_as_lost and  *)
(* get_stats calls of a reconciliation thread, every row stays in the      *)
(* table and changes status only PENDING -> VERIFIED or PENDING -> LOST;   *)
(* every accepted item the send thread has handed to record_danmaku has    *)
(* exactly one row, with the content of its first recording; and the       *)
(* table equals the one the same operations produce when run one after     *)
(* the other in their commit order, with get_stats returning the counts    *)
(* of the table at its place in that order.                                *)
(***************************************************************************)
Recorded == {danmakus[j].dmid : j \in 1..(i - 1)}

\* the ids of the record_danmaku calls in which sqlite3 did not raise
Stored ==
    {mon.log[y].dm.dmid :
        y \in {z \in DOMAIN mon.log :
                  mon.log[z].op = "record_danmaku" /\ mon.log[z].io = "ok"}}

\* the first record_danmaku call for the id in which sqlite3 did not raise
FirstStored(d) ==
    LET x == CHOOSE y \in DOMAIN mon.log :
                 /\ mon.log[y].op = "record_danmaku" /\ mon.log[y].dm.dmid = d
                 /\ mon.log[y].io = "ok"
                 /\ \A z \in 1..(y - 1) :
                        ~(/\ mon.log[z].op = "record_danmaku" /\ mon.log[z].dm.dmid = d
                          /\ mon.log[z].io = "ok")
    IN  mon.log[x]

FirstRecording(d) ==
    LET x == CHOOSE y \in DOMAIN mon.log :
                 /\ mon.log[y].op = "record_danmaku" /\ mon.log[y].dm.dmid = d
                 /\ \A z \in 1..(y - 1) :
                        ~(mon.log[z].op = "record_danmaku" /\ mon.log[z].dm.dmid = d)
    IN  mon.log[x]

C18_InterleavingSafe ==
    [][/\ \A r \in db : /\ RowsOf(db', r.dmid) # {}
                         /\ \A r2 \in RowsOf(db', r.dmid) : StatusStepOk(r, r2)
       /\ \A d \in Recorded' :
             /\ Cardinality(RowsOf(db', d)) = 1
             /\ \A r \in RowsOf(db', d) :
                   WithStatus(r, PENDING)
                      = Row(FirstRecording(d)'.target, FirstRecording(d)'.dm,
                            FirstRecording(d)'.visible, FirstRecording(d)'.now, PENDING)
       /\ db' = Replay(run.db0, mon'.log)
       /\ (mon'.done # mon.done /\ mon'.log[Len(mon'.log)].op = "get_stats") =>
             mon'.stats = Some(get_stats(Replay(run.db0, mon.log),
                                         mon'.log[Len(mon'.log)].cid,
                                         mon'.log[Len(mon'.log)].io))]_vars

\* C18 with the writes that fail: every row stays in the table and changes
\* status only PENDING -> VERIFIED or PENDING -> LOST; every accepted item
\* of which a record_danmaku call completed has exactly one row, with the
\* content of the first call that completed; an accepted item whose calls
\* all failed with a storage error has no row; the table equals the replay
\* of the log in commit order, a failed operation changing nothing, and
\* get_stats returns the counts of the table at its place in that order, or
\* (0, 0, 0) when it failed.
C18_InterleavingSafeOfCompletedWrites ==
    [][/\ \A r \in db : /\ RowsOf(db', r.dmid) # {}
                         /\ \A r2 \in RowsOf(db', r.dmid) : StatusStepOk(r, r2)
       /\ \A d \in Stored' :
             /\ Cardinality(RowsOf(db', d)) = 1
             /\ \A r \in RowsOf(db', d) :
                   WithStatus(r, PENDING)
                      = Row(FirstStored(d)'.target, FirstStored(d)'.dm,
                            FirstStored(d)'.visible, FirstStored(d)'.now, PENDING)
       /\ \A d \in Recorded' \ Stored' : RowsOf(db', d) = {}
       /\ db' = Replay(run.db0, mon'.log)
       /\ (mon'.done # mon.done /\ mon'.log[Len(mon'.log)].op = "get_stats") =>
             mon'.stats = Some(get_stats(Replay(run.db0, mon.log),
                                         mon'.log[Len(mon'.log)].cid,
                                         mon'.log[Len(mon'.log)].io))]_vars

C18_Witness ==
    /\ Len(mon.log) = 4
    /\ \A y \in 1..4 : mon.log[y].io = "ok"
    /\ mon.log[1].op = "record_danmaku" /\ mon.log[1].dm.dmid = "d1"
    /\ mon.log[2].op = "verify_dmids" /\ mon.log[2].ids = {"d1", "d2"}
    /\ mon.log[3].op = "record_danmaku" /\ mon.log[3].dm.dmid = "d2"
    /\ mon.log[4].op = "mark_as_lost" /\ mon.log[4].cid = 1 /\ mon.log[4].ids = {"d1"}
    /\ {<<r.dmid, r.status>> : r \in db} = {<<"d1", VERIFIED>>, <<"d2", LOST>>}

(***************************************************************************)
(* C19  Store construction is race-free: all threads whose constructor has *)
(* returned hold the same object, which is cls._instance; _init_db (the    *)
(* table-creation step) has run at most once; and when a constructor has   *)
(* returned, the object's db_path is set, _init_db has run and             *)
(* _initialized is set.                                                    *)
(***************************************************************************)
Constructed == {t \in DOMAIN hm.th : hm.th[t].pc = "done" /\ hm.th[t].exception = ""}

\* threads whose constructor raised
Failed == {t \in DOMAIN hm.th : hm.th[t].exception # ""}

C19_ConstructionRaceFree ==
    /\ hm.init_db_runs <= 1
    /\ \A t \in Constructed :
          /\ hm.th[t].self # None
          /\ hm.th[t].self = hm._instance
          /\ \A u \in Constructed : hm.th[u].self = hm.th[t].self
          /\ hm.th[t].self \subseteq hm.db_path
          /\ hm.init_db_runs = 1
          /\ hm._initialized

\* the threads out of whose constructor the RuntimeError of _init_db went
FailedInitDb == {t \in DOMAIN hm.th : hm.th[t].exception = "RuntimeError"}

\* C19 with the table created at most once: every run of _init_db but the
\* one that creates the table ends in an exception out of its thread's
\* constructor, as does a failed mkdir of the data directory, after which
\* the lock is free and the next thread runs the initialisation again
C19_ConstructionRaceFreeOnceCreated ==
    /\ hm.init_db_done <= 1
    /\ hm.init_db_runs = Cardinality(FailedInitDb) + hm.init_db_done
    /\ \A t \in Failed : hm._lock # Some(t) /\ hm.th[t].pc = "done"
    /\ hm.init_db_done = 0 => ~hm._initialized
    /\ \A t \in Constructed :
          /\ hm.th[t].self # None
          /\ hm.th[t].self = hm._instance
          /\ \A u \in Constructed : hm.th[u].self = hm.th[t].self
          /\ hm.th[t].self \subseteq hm.db_path
          /\ hm.init_db_done = 1
          /\ hm._initialized

C19_Witness ==
    /\ pc = "ctor"
    /\ Constructed = Threads
    /\ hm.objects = 1
    /\ \E t \in Threads : hm.th[t].new_hit /\ hm.th[t].init_hit
    /\ \E t \in Threads : ~hm.th[t].new_hit /\ hm.th[t].init_hit

LostIds(tbl) == {r.dmid : r \in {q \in tbl : q.status = LOST}}

\* the step is one of the monitor: it moves the run of the monitor and is
\* no call of mark_as_lost
MonitorStep == mon' # mon /\ mon'.done = mon.done

C21_MonitorNeverMarksLost ==
    [][/\ MonitorStep => db' = db
       /\ LostIds(db') # LostIds(db) =>
              mon' = [mon EXCEPT !.done = @ + 1] /\ i' = i]_vars

\* two ticks with nothing fetched went by while the send thread recorded
\* an item: the row that was PENDING before the run still is, and no
\* mark_as_lost was called
C21_Witness ==
    /\ pc = "poll"
    /\ mon.ticks = 2
    /\ mon.at = "loop"
    /\ mon.done = 0
    /\ mon.tick = "empty"
    /\ Len(mon.loaded_danmakus) = 2
    /\ i = 2
    /\ \E r \in db : r.dmid = "p1" /\ r.status = PENDING
    /\ \E r \in db : r.dmid = "d1" /\ r.status = PENDING
    /\ LostIds(db) = {}

(***************************************************************************)
(* C22  Every statistics read has total = verified + pending + lost with   *)
(* pending = total - verified - lost >= 0, and its total, verified, lost   *)
(* and pending are the numbers of rows, of VERIFIED, of LOST and of        *)
(* PENDING rows under the cid in the one table state get_stats read,       *)
(* while the send thread inserts and the table is verified and marked.     *)
(***************************************************************************)
RowsWith(tbl, cid, S) == {r \in tbl : r.cid = cid /\ r.status \in S}

\* the step is a call of get_stats
StatsRead ==
    /\ Len(mon'.log) = Len(mon.log) + 1
    /\ mon'.log[Len(mon'.log)].op = "get_stats"

\* the tuple get_stats returned in the step is the count of the table the
\* step read, under the cid it was called with
StatsOfSnapshot ==
    LET stats == The(mon'.stats)
        cid == mon'.log[Len(mon'.log)].cid
        pending == stats[1] - stats[2] - stats[3]
    IN  /\ pending >= 0
        /\ stats[1] = Cardinality(RowsWith(db, cid, Statuses))
        /\ stats[2] = Cardinality(RowsWith(db, cid, {VERIFIED}))
        /\ stats[3] = Cardinality(RowsWith(db, cid, {LOST}))
        /\ pending = Cardinality(RowsWith(db, cid, {PENDING}))

RunEnded == pc \notin Running

C23_RunEndsWithSummary ==
    RunEnded =>
        /\ summary # ""
        /\ unsent_danmakus = ctx.unsent_records
        /\ Total = ctx.success_count + ctx.skipped_count + Len(unsent_danmakus)
        /\ \A k \in 1..Total :
              k \in UnsentWith(unsent_danmakus, {"failed", "fatal_error", "after_fatal",
                                                "manual_stop", "auto_stop"})
              \/ k \in run.skipped
              \/ \E x \in DOMAIN run.submitted : run.submitted[x] = k

(***************************************************************************)
(* C24  Cancellation is a shared, idempotent signal that is not consumed:  *)
(* no step of the send loop, the pacing wait or the monitor loop clears    *)
(* the stop event once it is set (polling it leaves it set, setting it     *)
(* again leaves it set), and the only step of a run that sets it is the    *)
(* auto-stop of the send run.                                              *)
(***************************************************************************)
C24_SignalNotConsumed ==
    [][/\ stop_event => stop_event'
       /\ (~stop_event /\ stop_event' /\ pc' # pc) => run'.exit = "AUTO_STOPPED"]_vars

\* a send run cancelled at its first loop head: the event is still set
\* after the loop head and the summary have polled it
C24_Witness ==
    /\ pc = "done"
    /\ stop_event
    /\ summary = "CANCELLED"
    /\ run.exit = "CANCELLED"
    /\ ~hasattr(config, "skip_sent")
    /\ run.progress = Some(<<0, 2>>)
    /\ Total = 2

(***************************************************************************)
(* C25  mark_as_lost(X, L) sets to LOST exactly the rows that are PENDING  *)
(* under cid X with an id not in L (every PENDING row under X when L is    *)
(* empty); every row under another cid, every VERIFIED or LOST row and     *)
(* every PENDING row with an id in L is left as it was, and no row is      *)
(* added or removed.                                                       *)
(***************************************************************************)
C25_MarkLostFrame ==
    [][call'.op = "mark_as_lost" =>
          /\ Cardinality(db') = Cardinality(db)
          /\ \A r \in db :
                IF r.cid = call'.cid /\ r.status = PENDING /\ r.dmid \notin call'.ids
                THEN WithStatus(r, LOST) \in db'
                ELSE r \in db']_vars

\* C25 for a call in which sqlite3 does not raise; a call in which it
\* raises leaves the table as it was
C25_MarkLostFrameOfCompletedCall ==
    [][call'.op = "mark_as_lost" =>
          IF call'.io = "ok"
          THEN /\ Cardinality(db') = Cardinality(db)
               /\ \A r \in db :
                     IF r.cid = call'.cid /\ r.status = PENDING /\ r.dmid \notin call'.ids
                     THEN WithStatus(r, LOST) \in db'
                     ELSE r \in db'
          ELSE db' = db]_vars

C25_Witness ==
    /\ call.op = "mark_as_lost" /\ call.cid = 1 /\ call.ids = {"d2"}
    /\ call.io = "ok"
    /\ \E r \in db : r.dmid = "d1" /\ r.cid = 1 /\ r.status = LOST
    /\ \E r \in db : r.dmid = "d2" /\ r.cid = 1 /\ r.status = PENDING

(***************************************************************************)
(* C26  verify_dmids returns the number of rows it turned from PENDING to  *)
(* VERIFIED: ids without a row and ids of VERIFIED or LOST rows add        *)
(* nothing; for an empty list it returns 0 and changes nothing; called     *)
(* again with the same ids it returns 0 and leaves the table unchanged.    *)
(***************************************************************************)
Transitioned(tbl, tbl2) ==
    {r \in tbl : r.status = PENDING /\ WithStatus(r, VERIFIED) \in tbl2 /\ r \notin tbl2}

C26_VerifyReturnsTransitions ==
    [][call'.op = "verify_dmids" =>
          /\ call'.ret = Cardinality(Transitioned(db, db'))
          /\ call'.ret <= Cardinality(call'.ids \cap PendingIds(db))
          /\ call'.ids = {} => call'.ret = 0 /\ db' = db
          /\ (call.op = "verify_dmids" /\ call.ids = call'.ids) =>
                call'.ret = 0 /\ db' = db]_vars

\* C26 with the second call following a call in which sqlite3 did not
\* raise: a call in which it does not raise returns the number of the ids
\* that had a PENDING row, a call in which it raises returns 0 and changes
\* nothing, so the call repeated after it does the transitions and counts them
C26_VerifyReturnsTransitionsDone ==
    [][call'.op = "verify_dmids" =>
          /\ call'.ret = Cardinality(Transitioned(db, db'))
          /\ call'.io = "ok" => call'.ret = Cardinality(call'.ids \cap PendingIds(db))
          /\ call'.io # "ok" => call'.ret = 0 /\ db' = db
          /\ call'.ids = {} => call'.ret = 0 /\ db' = db
          /\ (call.op = "verify_dmids" /\ call.ids = call'.ids /\ call.io = "ok") =>
                call'.ret = 0 /\ db' = db]_vars

C26_Witness ==
    /\ call.op = "verify_dmids" /\ call.ids = {"d1", "d2"} /\ call.ret = 1
    /\ call.io = "ok"
    /\ call.pend = {"d1"}
    /\ \E r \in db : r.dmid = "d1" /\ r.status = VERIFIED
    /\ \E r \in db : r.dmid = "d2" /\ r.status = LOST

(***************************************************************************)
(* C27  count_records counts exactly the rows with the target's cid and    *)
(* the item's content, timestamp and display attributes whose status is    *)
(* PENDING or VERIFIED; LOST rows are not counted, so in a run with        *)
(* skip_sent asked for in the settings an item whose only matching rows    *)
(* are LOST is not skipped and, in a run that is not stopped early, is     *)
(* submitted.                                                              *)
(***************************************************************************)
Matching(tbl, k, S) ==
    {r \in tbl : /\ r.cid = target.cid
                 /\ <<r.msg, r.progress, r.mode, r.fontsize, r.color>>
                        = _get_fingerprint(danmakus[k])
                 /\ r.status \in S}

OnlyLostMatches(k) ==
    Matching(run.db0, k, {LOST}) # {} /\ Matching(run.db0, k, {PENDING, VERIFIED}) = {}

C27_LostNotCounted ==
    [][/\ \A fp \in DOMAIN ctx'.db_count_cache \ DOMAIN ctx.db_count_cache :
             /\ fp = _get_fingerprint(danmakus[i])
             /\ ctx'.db_count_cache[fp]
                    = Cardinality(Matching(db, i, {PENDING, VERIFIED}))
       /\ \A k \in run'.skipped : ~OnlyLostMatches(k)
       /\ (SkipAsked' /\ EndedNotStopped') =>
             \A k \in 1..Total :
                 OnlyLostMatches(k) => \E x \in DOMAIN run'.submitted : run'.submitted[x] = k
      ]_vars

(***************************************************************************)
(* C28  Frequency-limit cooldown: an answer with code 36703 is handled     *)
(* only after the fixed cooldown has been taken in full; the item is then  *)
(* a retryable failure (in the unsent list as failed, no fatal stop) and   *)
(* the run goes on to the pacing wait (or ends at the last item or an      *)
(* auto-stop limit); the next submission starts only from the loop head    *)
(* reached through that pacing wait; an answer with any other code is      *)
(* handled without a cooldown.                                             *)
(***************************************************************************)
Handled == run'.submitted # run.submitted /\ run'.last.kind = "response"

Evaluated == Handled /\ ~ctx'.fatal_error_occurred

CountHit == config.stop_after_count > 0 /\ ctx'.success_count >= config.stop_after_count

AutoStopsWhen(timeHit) ==
    /\ (config.stop_after_count = 0 /\ config.stop_after_time = 0) =>
          /\ run'.exit # "AUTO_STOPPED"
          /\ pc' # pc => stop_event' = stop_event
    /\ Evaluated =>
          /\ ctx'.auto_stop_reason = "time" <=> (timeHit /\ ~CountHit)
          /\ (timeHit \/ CountHit) =>
                /\ run'.exit = "AUTO_STOPPED"
                /\ stop_event'
                /\ pc' = "summary"
                /\ (i + 1)..Total = UnsentWith(ctx'.unsent_records, {"auto_stop"})
          /\ ~(timeHit \/ CountHit) =>
                /\ run'.exit # "AUTO_STOPPED"
                /\ stop_event' = stop_event

SkipFrame ==
    LET fp == _get_fingerprint(danmakus[i])
    IN  /\ pc = "loop" /\ SkipOn
        /\ run'.skipped = run.skipped \cup {i}
        /\ run'.submitted = run.submitted /\ run'.events = run.events
        /\ run'.last = run.last
        /\ ctx' = [ctx EXCEPT !.skipped_count = @ + 1,
                              !.local_counter = ctx'.local_counter,
                              !.db_count_cache = ctx'.db_count_cache]
        /\ ctx'.local_counter = Put(ctx.local_counter, fp,
                                    Get(ctx.local_counter, fp, 0) + 1)
        /\ ctx'.db_count_cache = Put(ctx.db_count_cache, fp,
                                     ctx'.db_count_cache[fp])
        /\ UNCHANGED <<db, call, danmakus, stop_event, delay_count, elapsed,
                       unsent_danmakus, summary, pace>>
        /\ IF i < Total
           THEN pc' = "loop" /\ i' = i + 1 /\ run'.exit = run.exit
           ELSE pc' = "summary" /\ run'.exit = "COMPLETED"

PollLooping == pc = "poll" /\ mon.at \in {"loop", "fetch", "wait"}

\* what a step of the polling loop does besides ending it: an unset event
\* at the loop head leads to a fetch, a fetch that gave nothing leads to the
\* tick wait and from there to the loop head, and once the event is set the
\* wait adds no second and the loop head ends the run
PollTicks ==
    /\ (mon.at = "loop" /\ ~stop_event /\ mon'.at # "loop") => mon'.at = "fetch"
    /\ (mon.at = "fetch" /\ mon'.at # "fetch" /\ mon'.tick = "empty") => mon'.at = "wait"
    /\ (mon.at = "wait" /\ mon'.at # "wait") => mon'.at = "loop"
    /\ (mon.at = "wait" /\ stop_event) => mon'.waited = mon.waited
    /\ (mon.at = "loop" /\ stop_event /\ mon' # mon) => mon'.at = "ended"
    /\ (mon'.at = "fetch" /\ mon.at # "fetch") => ~stop_event

\* C31: the polling loop ends only after the cancellation signal is set (it
\* never terminates on its own, neither by a return nor by an exception);
\* while the signal is unset every tick performs a fetch, a failed fetch is
\* retried on the next tick; after the signal is set the loop ends without
\* waiting a further tick interval.
C31_LoopUntilCancelled ==
    [][PollLooping =>
          /\ mon'.at \in {"ended", "raised"} => stop_event
          /\ PollTicks]_vars

\* the local indices 1..n of the monitor's local danmakus
LocalIndices == 1..Len(mon.loaded_danmakus)

\* no two matches of the sequence are of the same local danmaku, and no two
\* are credited to the same non-empty dmid
MatchesDistinct(ms) ==
    \A a, b \in 1..Len(ms) :
        a # b => /\ ms[a].local # ms[b].local
                 /\ ms[a].dmid # "" => ms[a].dmid # ms[b].dmid

SubmittedSet == {run.submitted[x] : x \in DOMAIN run.submitted}

\* the indices of the unsent list handed to the caller
UnsentSet == {unsent_danmakus[x].idx : x \in DOMAIN unsent_danmakus}

\* the three groups of an ended run: skipped, submitted and not reported
\* unsent (the successes), reported unsent exactly once
GroupsPartition ==
    /\ \A a, b \in DOMAIN unsent_danmakus :
          a # b => unsent_danmakus[a].idx # unsent_danmakus[b].idx
    /\ run.skipped \cap UnsentSet = {}
    /\ run.skipped \cap SubmittedSet = {}
    /\ run.skipped \cup UnsentSet \cup SubmittedSet = 1..Total
    /\ ctx.skipped_count = Cardinality(run.skipped)
    /\ ctx.success_count = Cardinality(SubmittedSet \ UnsentSet)
    /\ ctx.skipped_count + ctx.success_count + Len(unsent_danmakus) = Total

\* C32: item accounting of a send run.  At every point of the loop
\* success <= attempted and attempted + skipped <= total; when the run has
\* ended, in whatever way, every item of the batch is in exactly one of
\* three groups (skipped, successfully submitted, once in the unsent list),
\* so skipped + success + |unsent| = total.
C32_ItemAccounting ==
    /\ ctx.success_count <= ctx.attempted_count
    /\ ctx.attempted_count + ctx.skipped_count <= Total
    /\ RunEnded => GroupsPartition

\* C33: bounded reaction to cancellation.  Once the stop event is set no
\* cancellation check of the send loop lets a submission through: the only
\* submission that can still be made is the one that stood between its
\* check and its answer when the event was set; and when the run has ended
\* every item that was neither submitted nor skipped is in the unsent list.
C33_BoundedReaction ==
    [][(pc \in Running /\ stop_event) =>
          /\ pc' = "send" => pc = "send"
          /\ run'.submitted # run.submitted =>
                /\ pc \in {"send", "cooldown"}
                /\ pc' \notin {"send", "cooldown", "loop"}
          /\ RunEnded' =>
                \A k \in 1..Total :
                    k \in SubmittedSet' \cup run'.skipped \cup UnsentSet']_vars

\* the rows of the table that count_records counts for the fingerprint fp
CountedRows(tbl, fp) ==
    {r \in tbl : /\ r.cid = target.cid
                 /\ <<r.msg, r.progress, r.mode, r.fontsize, r.color>> = fp
                 /\ r.status \in {PENDING, VERIFIED}}

\* a step of the run keeps every cached count, caches a fingerprint at its
\* first occurrence with the count the store holds at that moment, and has
\* skipped of each fingerprint the smaller of the occurrences seen and the
\* cached count
SnapshotStep ==
    /\ \A fp \in DOMAIN ctx.db_count_cache :
          /\ fp \in DOMAIN ctx'.db_count_cache
          /\ ctx'.db_count_cache[fp] = ctx.db_count_cache[fp]
    /\ \A fp \in (DOMAIN ctx'.db_count_cache) \ (DOMAIN ctx.db_count_cache) :
          /\ Get(ctx.local_counter, fp, 0) = 0
          /\ ctx'.db_count_cache[fp] = Cardinality(CountedRows(db, fp))
    /\ \A fp \in DOMAIN ctx'.db_count_cache :
          Cardinality({k \in run'.skipped : _get_fingerprint(danmakus[k]) = fp})
              = Min(ctx'.local_counter[fp], ctx'.db_count_cache[fp])

LookupFailed == run'.lookup_faults # run.lookup_faults

Modifying ==
    {"update_item_content", "delete_item", "batch_remove_newlines",
     "batch_truncate_length"}

\* the session is dirty exactly when there is something to undo
DirtyIffUndoable(s) == s.validator_is_dirty <=> s.undo_stack # <<>>

\* C37: after any sequence of load_and_validate, update_item_content,
\* delete_item, the two batches, undo and apply_changes (no caller having
\* written the flag through set_dirty) the session is dirty if and only if
\* its undo stack is non-empty; a modifying operation that leaves the
\* issues as they were (the same content, an item already deleted, a batch
\* that matches no item) pushes no undo entry and leaves the flag as it was.
C37_DirtyIffUndoStack ==
    [][/\ ~session'.set_dirty_called =>
             DirtyIffUndoable(session) /\ DirtyIffUndoable(session')
       /\ (session'.op \in Modifying
           /\ session'.current_issues = session.current_issues)
             => /\ session'.undo_stack = session.undo_stack
                /\ session'.validator_is_dirty = session.validator_is_dirty]_vars

\* a session still dirty after an undo: of two operations on the stack one
\* is left
C37_Witness ==
    /\ pc = "session"
    /\ ~session.set_dirty_called
    /\ session.ops = 4
    /\ session.op = "undo"
    /\ session.ret = <<TRUE>>
    /\ Len(session.undo_stack) = 1
    /\ session.validator_is_dirty

\* every operation on the stack undone, the last first
RECURSIVE UndoAll(_)
UndoAll(s) == IF s.undo_stack = <<>> THEN s ELSE UndoAll(undo(s))

\* C38: undo is the exact inverse of the modifying operations.  A modifying
\* operation that changes the issues pushes one entry, and undo right after
\* it gives back the issues as they were before it (content and deleted
\* flag of every item); undoing everything on the stack gives the issues
\* load_and_validate left; undo with nothing on the stack returns False and
\* changes nothing.
C38_UndoIsInverse ==
    [][/\ (session'.op \in Modifying
           /\ session'.current_issues # session.current_issues)
             => /\ Len(session'.undo_stack) = Len(session.undo_stack) + 1
                /\ undo(session').current_issues = session.current_issues
                /\ undo(session').undo_stack = session.undo_stack
       /\ UndoAll(session').current_issues = session'.loaded_issues
       /\ (session'.op = "undo" /\ session.undo_stack = <<>>)
             => session' = [session EXCEPT !.op = "undo", !.ops = @ + 1,
                                           !.ret = <<FALSE>>]
       /\ (session'.op = "undo" /\ session.undo_stack # <<>>)
             => /\ session'.ret = <<TRUE>>
                /\ session'.current_issues = session.history[Len(session.history)]]_vars

\* a batch that deleted one item and changed another was undone: the two
\* issues are again as load_and_validate left them
C38_Witness ==
    /\ pc = "session"
    /\ session.ops = 3
    /\ session.op = "undo"
    /\ session.ret = <<TRUE>>
    /\ session.undo_stack = <<>>
    /\ Len(session.current_issues) = 2
    /\ session.current_issues = session.loaded_issues
    /\ session.current_issues[1].current_content = <<"/", "n", "U+3000", "/", "n">>
    /\ session.current_issues[2].current_content = <<"a", "/", "n">>
    /\ session.history = <<>>
    /\ ~session.validator_is_dirty

\* every call of the API went with the change of the counter it belongs
\* to: enabling with 0 -> 1, restoring the default with 1 -> 0
ApiCallsAtEdges ==
    \A k \in 1..Len(power.api) :
        /\ power.api[k].call = "enable" => power.api[k].from = 0 /\ power.api[k].to = 1
        /\ power.api[k].call = "reset" => power.api[k].from = 1 /\ power.api[k].to = 0

\* no call of prevent_sleep or allow_sleep is in progress
AllReturned == \A t \in PowerThreads : power.th[t].pc = "idle"

\* C39: sleep-prevention reference counting.  The counter is never
\* negative, the API is called to enable prevention only for a change 0 -> 1
\* of the counter and to restore the default only for a change 1 -> 0, and
\* whenever all calls have returned sleep prevention is in effect if and
\* only if the counter is greater than 0.
C39_SleepRefCount ==
    /\ power._prevent_sleep_count >= 0
    /\ ApiCallsAtEdges
    /\ AllReturned =>
          (power.state = "system_required" <=> power._prevent_sleep_count > 0)

Init == StoreInit
Next == StoreNext
Spec == Init /\ [][Next]_vars

====
